---- MODULE Spec2Model ----
(***************************************************************************)
(* Document / Query / MemoryAdapter / Database of the TypeScript port of   *)
(* the Utopia database package, as a state machine.                        *)
(*                                                                         *)
(* JavaScript objects live in `heap`: a Document, a plain object and an    *)
(* array are heap nodes with an address, so that sharing (aliasing) of a   *)
(* nested structure by two owners is a fact of the state.  A string is the *)
(* sequence of its character codes, so that String(), the lexical order    *)
(* and the prefix/suffix tests are computed, not looked up.                *)
(***************************************************************************)
EXTENDS Integers, Sequences, FiniteSets, TLC

VARIABLES
    heap,         \* address -> node (Document, plain object, array, or free)
    collections,  \* MemoryAdapter.collections: name -> StoredCollection
    held,         \* addresses of the Documents the caller holds
    result,       \* what the last call returned to the caller
    pending,      \* Database.updateDocument calls suspended at their await
    last,         \* the last call: operation, arguments, outcome
    clock         \* what new Date() returns next

vars == <<heap, collections, held, result, pending, last, clock>>

----------------------------------------------------------------------------
(* Strings *)

chDollar == <<36>>
chComma == <<44>>
chMinus == <<45>>

\* "$id", "$collection", "$createdAt", "$updatedAt", "$permissions"
kId == <<36, 105, 100>>
kCollection == <<36, 99, 111, 108, 108, 101, 99, 116, 105, 111, 110>>
kCreatedAt == <<36, 99, 114, 101, 97, 116, 101, 100, 65, 116>>
kUpdatedAt == <<36, 117, 112, 100, 97, 116, 101, 100, 65, 116>>
kPermissions == <<36, 112, 101, 114, 109, 105, 115, 115, 105, 111, 110, 115>>

\* user attribute keys "a", "b", "m"
kA == <<97>>
kB == <<98>>
kM == <<109>>

\* "null", "undefined", "[object Object]"
sNull == <<110, 117, 108, 108>>
sUndefined == <<117, 110, 100, 101, 102, 105, 110, 101, 100>>
sObject == <<91, 111, 98, 106, 101, 99, 116, 32, 79, 98, 106, 101, 99, 116, 93>>

\* "true", "false"
sTrue == <<116, 114, 117, 101>>
sFalse == <<102, 97, 108, 115, 101>>

\* the properties "method", "attribute", "values" of a QueryJSON
kMethod == <<109, 101, 116, 104, 111, 100>>
kAttribute == <<97, 116, 116, 114, 105, 98, 117, 116, 101>>
kValues == <<118, 97, 108, 117, 101, 115>>

RECURSIVE NumToStr(_)
\* String(n) of an integer: its decimal digits.
NumToStr(n) ==
    IF n < 0 THEN chMinus \o NumToStr(0 - n)
    ELSE IF n < 10 THEN <<48 + n>>
    ELSE NumToStr(n \div 10) \o <<48 + (n % 10)>>

RECURSIVE StrLess(_, _)
\* s < t on strings: the lexical order of the code units.
StrLess(s, t) ==
    IF t = <<>> THEN FALSE
    ELSE IF s = <<>> THEN TRUE
    ELSE IF Head(s) # Head(t) THEN Head(s) < Head(t)
    ELSE StrLess(Tail(s), Tail(t))

IsDigits(s) == s # <<>> /\ \A i \in 1..Len(s) : s[i] \in 48..57

RECURSIVE DigitsToNum(_)
DigitsToNum(s) ==
    IF s = <<>> THEN 0 ELSE 10 * DigitsToNum(SubSeq(s, 1, Len(s) - 1)) + (s[Len(s)] - 48)

\* Number(s) of a string, as the relational operators < and > coerce it:
\* [nan |-> TRUE] when s is no numeral.  (Whitespace, fractions and exponents
\* are outside the strings of this model.)
StrToNum(s) ==
    IF s = <<>> THEN [nan |-> FALSE, n |-> 0]
    ELSE IF IsDigits(s) THEN [nan |-> FALSE, n |-> DigitsToNum(s)]
    ELSE IF Head(s) = 45 /\ IsDigits(Tail(s)) THEN [nan |-> FALSE, n |-> 0 - DigitsToNum(Tail(s))]
    ELSE [nan |-> TRUE, n |-> 0]

toLowerCase(s) == [i \in 1..Len(s) |-> IF s[i] \in 65..90 THEN s[i] + 32 ELSE s[i]]

StartsWith(s, p) == Len(p) <= Len(s) /\ SubSeq(s, 1, Len(p)) = p
EndsWith(s, p) == Len(p) <= Len(s) /\ SubSeq(s, Len(s) - Len(p) + 1, Len(s)) = p
Includes(s, p) == \E i \in 0..(Len(s) - Len(p)) : SubSeq(s, i + 1, i + Len(p)) = p

----------------------------------------------------------------------------
(* Values and heap nodes *)

Num(n) == [t |-> "num", n |-> n]
Str(s) == [t |-> "str", s |-> s]
Bool(b) == [t |-> "bool", b |-> b]
Null == [t |-> "null"]
Undef == [t |-> "undef"]
Ref(a) == [t |-> "ref", a |-> a]

IsNullish(v) == v.t \in {"null", "undef"}

DocNode(m) == [k |-> "doc", m |-> m]
MapNode(m) == [k |-> "map", m |-> m]
ArrNode(s) == [k |-> "arr", s |-> s]

EmptyMap == [key \in {} |-> Undef]
Put(m, key, v) == (key :> v) @@ m
Del(m, key) == [x \in (DOMAIN m) \ {key} |-> m[x]]

IsDoc(h, v) == v.t = "ref" /\ h[v.a].k = "doc"
IsArr(h, v) == v.t = "ref" /\ h[v.a].k = "arr"
IsMap(h, v) == v.t = "ref" /\ h[v.a].k = "map"

RECURSIVE SetToSeq(_)
SetToSeq(S) ==
    IF S = {} THEN <<>>
    ELSE LET x == CHOOSE y \in S : TRUE IN <<x>> \o SetToSeq(S \ {x})

\* Op applied to the value of v: the value is computed once, whatever the
\* number of its uses in Op.
With(v, Op(_)) == Op(v)

\* A new object, at the next address of the heap.
Alloc(h, node) == [h |-> Append(h, node), v |-> Ref(Len(h) + 1), ok |-> TRUE]

Fail(h) == [h |-> h, v |-> Undef, ok |-> FALSE]
Ret(h, v) == [h |-> h, v |-> v, ok |-> TRUE]

RECURSIVE RefsIn(_)
\* The addresses in a sequence of values.
RefsIn(vals) ==
    IF vals = <<>> THEN <<>>
    ELSE (IF Head(vals).t = "ref" THEN <<Head(vals).a>> ELSE <<>>) \o RefsIn(Tail(vals))

\* The addresses a node refers to, in the order of its entries.
NodeRefSeq(node) ==
    IF node.k = "arr" THEN RefsIn(node.s)
    ELSE LET keys == SetToSeq(DOMAIN node.m) IN RefsIn([i \in 1..Len(keys) |-> node.m[keys[i]]])

NodeRefs(node) == {NodeRefSeq(node)[i] : i \in 1..Len(NodeRefSeq(node))}

RECURSIVE Reach(_, _)
\* The addresses reachable from the addresses S.
Reach(h, S) ==
    LET N == S \cup UNION {NodeRefs(h[a]) : a \in S}
    IN IF N = S THEN S ELSE Reach(h, N)

RECURSIVE Visit(_, _, _)
\* The reachable addresses in the order a traversal from the roots meets them.
Visit(h, queue, seen) ==
    IF queue = <<>> THEN seen
    ELSE IF \E i \in 1..Len(seen) : seen[i] = Head(queue) THEN Visit(h, Tail(queue), seen)
    ELSE Visit(h, Tail(queue) \o NodeRefSeq(h[Head(queue)]), Append(seen, Head(queue)))

\* A value, and a node, with every address a replaced by at[a].
MoveValue(v, at) == IF v.t = "ref" THEN Ref(at[v.a]) ELSE v
MoveNode(node, at) ==
    IF node.k = "arr" THEN ArrNode([i \in 1..Len(node.s) |-> MoveValue(node.s[i], at)])
    ELSE [k |-> node.k, m |-> [x \in DOMAIN node.m |-> MoveValue(node.m[x], at)]]

----------------------------------------------------------------------------
(* Document.ts *)

RECURSIVE ToStr(_, _)
RECURSIVE JoinStr(_, _)
\* String(value).
ToStr(h, v) ==
    CASE v.t = "num" -> NumToStr(v.n)
      [] v.t = "str" -> v.s
      [] v.t = "bool" -> IF v.b THEN sTrue ELSE sFalse
      [] v.t = "null" -> sNull
      [] v.t = "undef" -> sUndefined
      [] OTHER -> IF h[v.a].k = "arr" THEN JoinStr(h, h[v.a].s) ELSE sObject

\* Array.prototype.join(","): null and undefined items are empty.
JoinStr(h, s) ==
    IF s = <<>> THEN <<>>
    ELSE LET first == IF IsNullish(Head(s)) THEN <<>> ELSE ToStr(h, Head(s))
         IN IF Len(s) = 1 THEN first ELSE first \o chComma \o JoinStr(h, Tail(s))

RECURSIVE toJSON(_, _)
RECURSIVE exportEntries(_, _, _, _)
RECURSIVE exportItems(_, _, _)
RECURSIVE prepareValue(_, _)
RECURSIVE prepareItems(_, _, _)
RECURSIVE prepareEntries(_, _, _, _)
RECURSIVE replace(_, _, _, _)
RECURSIVE NewDocument(_, _)

\* value.map((item) => item instanceof Document ? item.toJSON() : item)
exportItems(h, items, acc) ==
    IF items = <<>> THEN Ret(h, acc)
    ELSE With(IF IsDoc(h, Head(items)) THEN toJSON(h, Head(items).a) ELSE Ret(h, Head(items)),
              LAMBDA r : exportItems(r.h, Tail(items), Append(acc, r.v)))

\* The loop of toJSON over Object.entries(this.data).
exportEntries(h, m, keys, acc) ==
    IF keys = <<>> THEN Ret(h, acc)
    ELSE LET key == Head(keys)
             value == m[key]
         IN With(IF IsDoc(h, value) THEN toJSON(h, value.a)
                 ELSE IF IsArr(h, value)
                      THEN With(exportItems(h, h[value.a].s, <<>>),
                                LAMBDA items : Alloc(items.h, ArrNode(items.v)))
                      ELSE Ret(h, value),
                 LAMBDA r : exportEntries(r.h, m, Tail(keys), Put(acc, key, r.v)))

\* Document.toJSON of the Document at address a: a new plain object.
toJSON(h, a) ==
    With(exportEntries(h, h[a].m, SetToSeq(DOMAIN h[a].m), EmptyMap),
         LAMBDA r : Alloc(r.h, MapNode(r.v)))

\* Document.clone were it to hand out the Document itself.
cloneShared(h, a) == Ret(h, Ref(a))

\* Document.clone
clone(h, a) ==
    With(toJSON(h, a), LAMBDA j : NewDocument(j.h, j.v))

\* value.map((item) => this.prepareValue(item))
prepareItems(h, items, acc) ==
    IF items = <<>> THEN Ret(h, acc)
    ELSE With(prepareValue(h, Head(items)),
              LAMBDA r : IF ~r.ok THEN Fail(h)
                         ELSE prepareItems(r.h, Tail(items), Append(acc, r.v)))

\* The loop of prepareValue over Object.entries(record).
prepareEntries(h, m, keys, acc) ==
    IF keys = <<>> THEN Ret(h, acc)
    ELSE With(prepareValue(h, m[Head(keys)]),
              LAMBDA r : IF ~r.ok THEN Fail(h)
                         ELSE prepareEntries(r.h, m, Tail(keys), Put(acc, Head(keys), r.v)))

\* Document.prepareValue
prepareValue(h, value) ==
    IF IsDoc(h, value) THEN clone(h, value.a)
    ELSE IF IsArr(h, value)
         THEN With(prepareItems(h, h[value.a].s, <<>>),
                   LAMBDA r : IF ~r.ok THEN Fail(h) ELSE Alloc(r.h, ArrNode(r.v)))
    ELSE IF IsMap(h, value)
         THEN IF kId \in DOMAIN h[value.a].m \/ kCollection \in DOMAIN h[value.a].m
              THEN With(NewDocument(h, value),
                        LAMBDA d : IF ~d.ok THEN Fail(h) ELSE clone(d.h, d.v.a))
              ELSE With(prepareEntries(h, h[value.a].m, SetToSeq(DOMAIN h[value.a].m), EmptyMap),
                        LAMBDA r : IF ~r.ok THEN Fail(h) ELSE Alloc(r.h, MapNode(r.v)))
    ELSE Ret(h, value)

\* Document.replace: the loop over Object.entries(input), data the receiver's
\* data so far.  ok = FALSE is the TypeError.
replace(h, m, keys, data) ==
    IF keys = <<>> THEN Ret(h, data)
    ELSE LET key == Head(keys)
             value == m[key]
         IN With(IF key = kId /\ ~IsNullish(value)
                 THEN IF value.t # "str" THEN Fail(h) ELSE Ret(h, value)
                 ELSE IF key = kPermissions /\ ~IsNullish(value)
                 THEN IF ~IsArr(h, value) THEN Fail(h)
                      ELSE Alloc(h, ArrNode([i \in 1..Len(h[value.a].s) |->
                                                Str(ToStr(h, h[value.a].s[i]))]))
                 ELSE prepareValue(h, value),
                 LAMBDA r : IF ~r.ok THEN Fail(h)
                            ELSE replace(r.h, m, Tail(keys), Put(data, key, r.v)))

\* new Document(input), input a reference to a plain object.
NewDocument(h, input) ==
    With(replace(h, h[input.a].m, SetToSeq(DOMAIN h[input.a].m), EmptyMap),
         LAMBDA r : IF ~r.ok THEN Fail(h) ELSE Alloc(r.h, DocNode(r.v)))

\* Document.getAttribute (no default): undefined when the key is absent.
getAttribute(h, a, key) ==
    IF key \in DOMAIN h[a].m THEN h[a].m[key] ELSE Undef

\* Document.getId: (this.data.$id as string) ?? ''
getId(h, a) ==
    LET v == getAttribute(h, a, kId) IN IF IsNullish(v) THEN Str(<<>>) ELSE v

\* Document.getCollection
getCollection(h, a) ==
    LET v == getAttribute(h, a, kCollection) IN IF IsNullish(v) THEN Str(<<>>) ELSE v

\* Document.setAttribute: this.data[key] = this.prepareValue(value)
setAttribute(h, a, key, value) ==
    With(prepareValue(h, value),
         LAMBDA r : IF ~r.ok THEN Fail(h)
                    ELSE Ret([r.h EXCEPT ![a] = DocNode(Put(r.h[a].m, key, r.v))], Ref(a)))

\* Document.removeAttribute: delete this.data[key]
removeAttribute(h, a, key) ==
    Ret([h EXCEPT ![a] = DocNode(Del(h[a].m, key))], Ref(a))

----------------------------------------------------------------------------
(* Query.ts *)

\* The method strings, Query.TYPE_EQUAL = 'equal' and so on.
TYPE_EQUAL == <<101, 113, 117, 97, 108>>
TYPE_NOT_EQUAL == <<110, 111, 116, 69, 113, 117, 97, 108>>
TYPE_LESS_THAN == <<108, 101, 115, 115, 84, 104, 97, 110>>
TYPE_LESS_THAN_EQUAL == <<108, 101, 115, 115, 84, 104, 97, 110, 69, 113, 117, 97, 108>>
TYPE_GREATER_THAN == <<103, 114, 101, 97, 116, 101, 114, 84, 104, 97, 110>>
TYPE_GREATER_THAN_EQUAL == <<103, 114, 101, 97, 116, 101, 114, 84, 104, 97, 110, 69, 113, 117, 97, 108>>
TYPE_CONTAINS == <<99, 111, 110, 116, 97, 105, 110, 115>>
TYPE_NOT_CONTAINS == <<110, 111, 116, 67, 111, 110, 116, 97, 105, 110, 115>>
TYPE_SEARCH == <<115, 101, 97, 114, 99, 104>>
TYPE_NOT_SEARCH == <<110, 111, 116, 83, 101, 97, 114, 99, 104>>
TYPE_IS_NULL == <<105, 115, 78, 117, 108, 108>>
TYPE_IS_NOT_NULL == <<105, 115, 78, 111, 116, 78, 117, 108, 108>>
TYPE_BETWEEN == <<98, 101, 116, 119, 101, 101, 110>>
TYPE_STARTS_WITH == <<115, 116, 97, 114, 116, 115, 87, 105, 116, 104>>
TYPE_NOT_STARTS_WITH == <<110, 111, 116, 83, 116, 97, 114, 116, 115, 87, 105, 116, 104>>
TYPE_ENDS_WITH == <<101, 110, 100, 115, 87, 105, 116, 104>>
TYPE_NOT_ENDS_WITH == <<110, 111, 116, 69, 110, 100, 115, 87, 105, 116, 104>>
TYPE_LIMIT == <<108, 105, 109, 105, 116>>
TYPE_OFFSET == <<111, 102, 102, 115, 101, 116>>
TYPE_ORDER_ASC == <<111, 114, 100, 101, 114, 65, 115, 99>>
TYPE_ORDER_DESC == <<111, 114, 100, 101, 114, 68, 101, 115, 99>>
TYPE_SELECT == <<115, 101, 108, 101, 99, 116>>
TYPE_AND == <<97, 110, 100>>
TYPE_OR == <<111, 114>>

LOGICAL_METHODS == {TYPE_AND, TYPE_OR}

VALID_METHODS ==
    {TYPE_EQUAL, TYPE_NOT_EQUAL, TYPE_LESS_THAN, TYPE_LESS_THAN_EQUAL,
     TYPE_GREATER_THAN, TYPE_GREATER_THAN_EQUAL, TYPE_CONTAINS, TYPE_NOT_CONTAINS,
     TYPE_SEARCH, TYPE_NOT_SEARCH, TYPE_IS_NULL, TYPE_IS_NOT_NULL,
     TYPE_BETWEEN, TYPE_STARTS_WITH, TYPE_NOT_STARTS_WITH, TYPE_ENDS_WITH,
     TYPE_NOT_ENDS_WITH, TYPE_LIMIT, TYPE_OFFSET, TYPE_ORDER_ASC,
     TYPE_ORDER_DESC, TYPE_SELECT, TYPE_AND, TYPE_OR}

\* Query.isMethod: membership of the string in VALID_METHODS; a value that is
\* no string is no member.
isMethod(value) == value.t = "str" /\ value.s \in VALID_METHODS

\* A Query instance.  values are operand values (primitives, references to
\* Documents, JSON arrays and objects), or Query instances under a logical
\* method.
QueryObj(method, attribute, values) ==
    [t |-> "query", method |-> method, attribute |-> attribute, values |-> values]

\* A plain object and a plain array written as a literal or made by
\* JSON.parse: the entries in insertion order, the items in order.
JObj(e) == [t |-> "jobj", e |-> e]
JArr(s) == [t |-> "jarr", items |-> s]

IsQuery(x) == x.t = "query"

\* typeof value === 'object' && value !== null
IsObject(x) == x.t \in {"ref", "jobj", "jarr", "query"}

RECURSIVE Lookup(_, _)
\* The value of the last entry with this key, undefined when there is none.
Lookup(e, key) ==
    IF e = <<>> THEN Undef
    ELSE IF e[Len(e)].k = key THEN e[Len(e)].v
    ELSE Lookup(SubSeq(e, 1, Len(e) - 1), key)

\* json.method, json.attribute, json.values: the property read of fromJSON.
\* A Query instance has the three properties (private only to the compiler);
\* a Document, an array and a primitive have none of them.
Prop(json, key) ==
    CASE json.t = "jobj" -> Lookup(json.e, key)
      [] json.t = "query" -> IF key = kMethod THEN Str(json.method)
                             ELSE IF key = kAttribute THEN Str(json.attribute)
                             ELSE IF key = kValues THEN JArr(json.values)
                             ELSE Undef
      [] OTHER -> Undef

QFail == [ok |-> FALSE, q |-> QueryObj(<<>>, <<>>, <<>>)]
QRet(q) == [ok |-> TRUE, q |-> q]

RECURSIVE NewQuery(_, _, _)
RECURSIVE fromJSON(_)
RECURSIVE logicalOperands(_, _)
RECURSIVE fromJSONValues(_, _, _)

\* The map of the constructor over the operands of a logical query: a Query
\* is cloned, any other object goes through fromJSON, a primitive is the
\* TypeError.
logicalOperands(values, acc) ==
    IF values = <<>> THEN [ok |-> TRUE, vs |-> acc]
    ELSE LET value == Head(values)
         IN With(IF IsQuery(value) THEN NewQuery(value.method, value.attribute, value.values)
                 ELSE IF IsObject(value) THEN fromJSON(value)
                 ELSE QFail,
                 LAMBDA r : IF ~r.ok THEN [ok |-> FALSE, vs |-> <<>>]
                            ELSE logicalOperands(Tail(values), Append(acc, r.q)))

\* new Query(method, attribute, values): the method is stored as given.
NewQuery(method, attribute, values) ==
    IF method \in LOGICAL_METHODS
    THEN With(logicalOperands(values, <<>>),
              LAMBDA r : IF ~r.ok THEN QFail ELSE QRet(QueryObj(method, attribute, r.vs)))
    ELSE QRet(QueryObj(method, attribute, values))

\* Query.clone
cloneQuery(q) == NewQuery(q.method, q.attribute, q.values).q

\* The static factories Query.equal, limit, offset, orderAsc, orderDesc, select.
QEqual(attribute, values) == NewQuery(TYPE_EQUAL, attribute, values).q
QLimit(value) == NewQuery(TYPE_LIMIT, <<>>, <<value>>).q
QOffset(value) == NewQuery(TYPE_OFFSET, <<>>, <<value>>).q
QOrderAsc(attribute) == NewQuery(TYPE_ORDER_ASC, attribute, <<>>).q
QOrderDesc(attribute) == NewQuery(TYPE_ORDER_DESC, attribute, <<>>).q
QSelect(fields) == NewQuery(TYPE_SELECT, <<>>, fields).q

\* The static factories Query.and, Query.or.
QAnd(queries) == NewQuery(TYPE_AND, <<>>, queries).q
QOr(queries) == NewQuery(TYPE_OR, <<>>, queries).q

\* The map of fromJSON over json.values.
fromJSONValues(method, values, acc) ==
    IF values = <<>> THEN [ok |-> TRUE, vs |-> acc]
    ELSE IF method \in LOGICAL_METHODS
    THEN With(fromJSON(Head(values)),
              LAMBDA r : IF ~r.ok THEN [ok |-> FALSE, vs |-> <<>>]
                         ELSE fromJSONValues(method, Tail(values), Append(acc, r.q)))
    ELSE fromJSONValues(method, Tail(values), Append(acc, Head(values)))

\* Query.fromJSON.  json.values that is neither nullish nor an array has no
\* map: the call throws.  (An attribute that is no string, which the type
\* excludes, is outside the JSON objects of this model.)
fromJSON(json) ==
    With(<<Prop(json, kMethod), Prop(json, kAttribute), Prop(json, kValues)>>,
         LAMBDA p :
            IF ~isMethod(p[1]) THEN QFail
            ELSE IF ~(IsNullish(p[3]) \/ p[3].t = "jarr") THEN QFail
            ELSE With(fromJSONValues(p[1].s, IF IsNullish(p[3]) THEN <<>> ELSE p[3].items, <<>>),
                      LAMBDA r : IF ~r.ok THEN QFail
                                 ELSE NewQuery(p[1].s,
                                               IF p[2].t = "str" THEN p[2].s ELSE <<>>,
                                               r.vs)))

RECURSIVE queryToJSON(_, _)
RECURSIVE queryToJSONKeepsDocuments(_, _)
\* Query.toJSON were it to leave a Document operand in place.
queryToJSONKeepsDocuments(h, q) ==
    JObj(<<[k |-> kMethod, v |-> Str(q.method)]>>
         \o (IF q.attribute # <<>> THEN <<[k |-> kAttribute, v |-> Str(q.attribute)]>> ELSE <<>>)
         \o <<[k |-> kValues,
               v |-> JArr(IF q.method \in LOGICAL_METHODS
                          THEN [i \in 1..Len(q.values) |->
                                   queryToJSONKeepsDocuments(h, q.values[i])]
                          ELSE q.values)]>>)

\* Query.toJSON: the attribute is written when it is not empty, a Document
\* operand becomes its getId().
queryToJSON(h, q) ==
    JObj(<<[k |-> kMethod, v |-> Str(q.method)]>>
         \o (IF q.attribute # <<>> THEN <<[k |-> kAttribute, v |-> Str(q.attribute)]>> ELSE <<>>)
         \o <<[k |-> kValues,
               v |-> JArr(IF q.method \in LOGICAL_METHODS
                          THEN [i \in 1..Len(q.values) |-> queryToJSON(h, q.values[i])]
                          ELSE [i \in 1..Len(q.values) |->
                                   IF IsDoc(h, q.values[i]) THEN getId(h, q.values[i].a)
                                   ELSE q.values[i]])]>>)

----------------------------------------------------------------------------
(* JSON.stringify and JSON.parse *)

RECURSIVE Escape(_)
\* The characters of a string as JSON writes them: '"' and '\' escaped.
Escape(s) ==
    IF s = <<>> THEN <<>>
    ELSE (IF Head(s) \in {34, 92} THEN <<92, Head(s)>> ELSE <<Head(s)>>) \o Escape(Tail(s))

Quote(s) == <<34>> \o Escape(s) \o <<34>>

RECURSIVE JoinTexts(_)
\* The texts, separated by commas.
JoinTexts(texts) ==
    IF texts = <<>> THEN <<>>
    ELSE IF Len(texts) = 1 THEN Head(texts)
    ELSE Head(texts) \o chComma \o JoinTexts(Tail(texts))

RECURSIVE JSONOf(_, _)
\* What JSON.stringify walks: an object with a toJSON method (a Query, a
\* Document) is replaced by what toJSON returns, and a heap object or array is
\* taken by its entries.
JSONOf(h, v) ==
    CASE v.t = "query" -> JSONOf(h, queryToJSON(h, v))
      [] v.t = "jarr" -> JArr([i \in 1..Len(v.items) |-> JSONOf(h, v.items[i])])
      [] v.t = "jobj" -> JObj([i \in 1..Len(v.e) |-> [k |-> v.e[i].k, v |-> JSONOf(h, v.e[i].v)]])
      [] v.t = "ref" ->
            IF h[v.a].k = "arr"
            THEN JArr([i \in 1..Len(h[v.a].s) |-> JSONOf(h, h[v.a].s[i])])
            ELSE LET keys == SetToSeq(DOMAIN h[v.a].m)
                 IN JObj([i \in 1..Len(keys) |->
                             [k |-> keys[i], v |-> JSONOf(h, h[v.a].m[keys[i]])]])
      [] OTHER -> v

RECURSIVE Write(_)
\* The text of a JSON value: undefined is null in an array and is left out of
\* an object.
Write(j) ==
    CASE j.t = "num" -> NumToStr(j.n)
      [] j.t = "str" -> Quote(j.s)
      [] j.t = "bool" -> IF j.b THEN sTrue ELSE sFalse
      [] j.t = "jarr" -> <<91>> \o JoinTexts([i \in 1..Len(j.items) |-> Write(j.items[i])]) \o <<93>>
      [] j.t = "jobj" ->
            LET e == SelectSeq(j.e, LAMBDA x : x.v.t # "undef")
            IN <<123>> \o JoinTexts([i \in 1..Len(e) |-> Quote(e[i].k) \o <<58>> \o Write(e[i].v)])
               \o <<125>>
      [] OTHER -> sNull

\* JSON.stringify(value)
JSONstringify(h, value) == Write(JSONOf(h, value))

PFail == [ok |-> FALSE, v |-> Undef, i |-> 0]
PRet(v, i) == [ok |-> TRUE, v |-> v, i |-> i]

RECURSIVE SkipSpace(_, _)
\* The position of the first character at or after i that is no space.
SkipSpace(text, i) ==
    IF i <= Len(text) /\ text[i] = 32 THEN SkipSpace(text, i + 1) ELSE i

RECURSIVE ParseChars(_, _, _)
\* A string, from the character after its opening quote.
ParseChars(text, i, acc) ==
    IF i > Len(text) THEN PFail
    ELSE IF text[i] = 34 THEN PRet(Str(acc), i + 1)
    ELSE IF text[i] = 92
         THEN IF i + 1 <= Len(text) /\ text[i + 1] \in {34, 92}
              THEN ParseChars(text, i + 2, Append(acc, text[i + 1]))
              ELSE PFail
    ELSE ParseChars(text, i + 1, Append(acc, text[i]))

RECURSIVE DigitsEnd(_, _)
\* The position after the digits that start at i.
DigitsEnd(text, i) ==
    IF i <= Len(text) /\ text[i] \in 48..57 THEN DigitsEnd(text, i + 1) ELSE i

\* A number: an optional minus and digits with no leading zero.  (Fractions
\* and exponents are outside the texts of this model.)
ParseNumber(text, i) ==
    With(IF text[i] = 45 THEN i + 1 ELSE i,
         LAMBDA from :
            With(DigitsEnd(text, from),
                 LAMBDA to :
                    IF to = from \/ (to - from > 1 /\ text[from] = 48) THEN PFail
                    ELSE PRet(Num(StrToNum(SubSeq(text, i, to - 1)).n), to)))

\* One of the words null, true, false.
ParseWord(text, i, word, v) ==
    IF i + Len(word) - 1 <= Len(text) /\ SubSeq(text, i, i + Len(word) - 1) = word
    THEN PRet(v, i + Len(word))
    ELSE PFail

RECURSIVE ParseValue(_, _)
RECURSIVE ParseElements(_, _, _)
RECURSIVE ParseMembers(_, _, _)

\* A value that starts at or after i: the value and the position after it.
ParseValue(text, at) ==
    With(SkipSpace(text, at),
         LAMBDA i :
            IF i > Len(text) THEN PFail
            ELSE CASE text[i] = 123 ->
                        With(SkipSpace(text, i + 1),
                             LAMBDA j : IF j <= Len(text) /\ text[j] = 125
                                        THEN PRet(JObj(<<>>), j + 1)
                                        ELSE ParseMembers(text, j, <<>>))
                   [] text[i] = 91 ->
                        With(SkipSpace(text, i + 1),
                             LAMBDA j : IF j <= Len(text) /\ text[j] = 93
                                        THEN PRet(JArr(<<>>), j + 1)
                                        ELSE ParseElements(text, j, <<>>))
                   [] text[i] = 34 -> ParseChars(text, i + 1, <<>>)
                   [] text[i] = 45 \/ text[i] \in 48..57 -> ParseNumber(text, i)
                   [] text[i] = 110 -> ParseWord(text, i, sNull, Null)
                   [] text[i] = 116 -> ParseWord(text, i, sTrue, Bool(TRUE))
                   [] text[i] = 102 -> ParseWord(text, i, sFalse, Bool(FALSE))
                   [] OTHER -> PFail)

\* The items of an array, from the start of an item.
ParseElements(text, i, acc) ==
    With(ParseValue(text, i),
         LAMBDA r :
            IF ~r.ok THEN PFail
            ELSE With(SkipSpace(text, r.i),
                      LAMBDA j :
                         IF j > Len(text) THEN PFail
                         ELSE IF text[j] = 44 THEN ParseElements(text, j + 1, Append(acc, r.v))
                         ELSE IF text[j] = 93 THEN PRet(JArr(Append(acc, r.v)), j + 1)
                         ELSE PFail))

\* The value of a member whose key has been read, and the members after it.
ParseMember(text, key, at, acc) ==
    With(SkipSpace(text, at),
         LAMBDA c :
            IF c > Len(text) \/ text[c] # 58 THEN PFail
            ELSE With(ParseValue(text, c + 1),
                      LAMBDA r :
                         IF ~r.ok THEN PFail
                         ELSE With(SkipSpace(text, r.i),
                                   LAMBDA j :
                                      IF j > Len(text) THEN PFail
                                      ELSE IF text[j] = 44
                                      THEN ParseMembers(text, j + 1,
                                                        Append(acc, [k |-> key, v |-> r.v]))
                                      ELSE IF text[j] = 125
                                      THEN PRet(JObj(Append(acc, [k |-> key, v |-> r.v])), j + 1)
                                      ELSE PFail)))

\* The members of an object, from the start of a key.
ParseMembers(text, at, acc) ==
    With(SkipSpace(text, at),
         LAMBDA i :
            IF i > Len(text) \/ text[i] # 34 THEN PFail
            ELSE With(ParseChars(text, i + 1, <<>>),
                      LAMBDA key : IF ~key.ok THEN PFail
                                   ELSE ParseMember(text, key.v.s, key.i, acc)))

\* JSON.parse(text): ok = FALSE is the SyntaxError.
JSONparse(text) ==
    With(ParseValue(text, 1),
         LAMBDA r : IF r.ok /\ SkipSpace(text, r.i) = Len(text) + 1 THEN r ELSE PFail)

\* Query.toString
queryToString(h, q) == JSONstringify(h, queryToJSON(h, q))

\* Query.parse
parse(text) ==
    With(JSONparse(text), LAMBDA r : IF ~r.ok THEN QFail ELSE fromJSON(r.v))

----------------------------------------------------------------------------
(* MemoryAdapter.ts: the evaluator *)

First(values) == IF Len(values) >= 1 THEN values[1] ELSE Undef
Second(values) == IF Len(values) >= 2 THEN values[2] ELSE Undef

\* MemoryAdapter.compareValues: negative, zero or positive.
compareValues(h, a, b) ==
    IF a = b THEN 0
    ELSE IF IsNullish(a) THEN 0 - 1
    ELSE IF IsNullish(b) THEN 1
    ELSE IF a.t = "num" /\ b.t = "num" THEN a.n - b.n
    ELSE With(<<ToStr(h, a), ToStr(h, b)>>,
              LAMBDA s : IF s[1] = s[2] THEN 0 ELSE IF StrLess(s[2], s[1]) THEN 1 ELSE 0 - 1)

\* ToPrimitive of an operand of < or >: an object is its String().
ToPrimitive(h, v) == IF v.t = "ref" THEN Str(ToStr(h, v)) ELSE v

\* ToNumber of a primitive.
ToNumber(v) ==
    CASE v.t = "num" -> [nan |-> FALSE, n |-> v.n]
      [] v.t = "str" -> StrToNum(v.s)
      [] v.t = "null" -> [nan |-> FALSE, n |-> 0]
      [] v.t = "bool" -> [nan |-> FALSE, n |-> IF v.b THEN 1 ELSE 0]
      [] OTHER -> [nan |-> TRUE, n |-> 0]

\* a < b of JavaScript: two strings by code units, anything else as numbers,
\* false when either is NaN.
JsLess(h, a, b) ==
    With(<<ToPrimitive(h, a), ToPrimitive(h, b)>>,
         LAMBDA p : IF p[1].t = "str" /\ p[2].t = "str" THEN StrLess(p[1].s, p[2].s)
                    ELSE With(<<ToNumber(p[1]), ToNumber(p[2])>>,
                              LAMBDA n : ~n[1].nan /\ ~n[2].nan /\ n[1].n < n[2].n))

RECURSIVE compareDocuments(_, _, _, _)
\* MemoryAdapter.compareDocuments: order is a sequence of
\* [attribute, direction]; -1, 0 or 1.
compareDocuments(h, a, b, order) ==
    IF order = <<>> THEN 0
    ELSE LET attribute == Head(order).attribute
             asc == Head(order).direction = "asc"
             aValue == getAttribute(h, a, attribute)
             bValue == getAttribute(h, b, attribute)
         IN IF aValue = bValue THEN compareDocuments(h, a, b, Tail(order))
            ELSE IF IsNullish(aValue) THEN (IF asc THEN 0 - 1 ELSE 1)
            ELSE IF IsNullish(bValue) THEN (IF asc THEN 1 ELSE 0 - 1)
            ELSE IF JsLess(h, bValue, aValue) THEN (IF asc THEN 1 ELSE 0 - 1)
            ELSE IF JsLess(h, aValue, bValue) THEN (IF asc THEN 0 - 1 ELSE 1)
            ELSE compareDocuments(h, a, b, Tail(order))

\* MemoryAdapter.containsValue
containsValue(h, source, candidates) ==
    IF IsArr(h, source)
    THEN \A i \in 1..Len(candidates) :
            \E j \in 1..Len(h[source.a].s) : compareValues(h, h[source.a].s[j], candidates[i]) = 0
    ELSE \E i \in 1..Len(candidates) : compareValues(h, source, candidates[i]) = 0

\* MemoryAdapter.search (the needle a string, as the signature says)
search(h, source, needle) ==
    source.t = "str" /\ Includes(toLowerCase(source.s), toLowerCase(ToStr(h, needle)))

\* MemoryAdapter.startsWith
startsWith(h, source, prefix) == source.t = "str" /\ StartsWith(source.s, ToStr(h, prefix))

\* MemoryAdapter.endsWith
endsWith(h, source, suffix) == source.t = "str" /\ EndsWith(source.s, ToStr(h, suffix))

RECURSIVE evaluate(_, _, _)
\* MemoryAdapter.evaluate of the Document at address d.
evaluate(h, d, query) ==
    LET method == query.method
    IN IF method = TYPE_AND THEN \A i \in 1..Len(query.values) : evaluate(h, d, query.values[i])
       ELSE IF method = TYPE_OR THEN \E i \in 1..Len(query.values) : evaluate(h, d, query.values[i])
       ELSE LET value == getAttribute(h, d, query.attribute)
                values == query.values
                first == First(values)
                second == Second(values)
            IN CASE method = TYPE_EQUAL ->
                      \E i \in 1..Len(values) : compareValues(h, value, values[i]) = 0
                 [] method = TYPE_NOT_EQUAL ->
                      \A i \in 1..Len(values) : compareValues(h, value, values[i]) # 0
                 [] method = TYPE_LESS_THAN -> compareValues(h, value, first) < 0
                 [] method = TYPE_LESS_THAN_EQUAL -> compareValues(h, value, first) <= 0
                 [] method = TYPE_GREATER_THAN -> compareValues(h, value, first) > 0
                 [] method = TYPE_GREATER_THAN_EQUAL -> compareValues(h, value, first) >= 0
                 [] method = TYPE_CONTAINS -> containsValue(h, value, values)
                 [] method = TYPE_NOT_CONTAINS -> ~containsValue(h, value, values)
                 [] method = TYPE_SEARCH -> search(h, value, first)
                 [] method = TYPE_NOT_SEARCH -> ~search(h, value, first)
                 [] method = TYPE_IS_NULL -> IsNullish(value)
                 [] method = TYPE_IS_NOT_NULL -> ~IsNullish(value)
                 [] method = TYPE_BETWEEN ->
                      compareValues(h, value, first) >= 0 /\ compareValues(h, value, second) <= 0
                 [] method = TYPE_STARTS_WITH -> startsWith(h, value, first)
                 [] method = TYPE_NOT_STARTS_WITH -> ~startsWith(h, value, first)
                 [] method = TYPE_ENDS_WITH -> endsWith(h, value, first)
                 [] method = TYPE_NOT_ENDS_WITH -> ~endsWith(h, value, first)
                 [] OTHER -> TRUE

\* Array.prototype.slice(start, end) on a sequence: a negative index counts
\* from the end.
Slice(s, start, end) ==
    LET len == Len(s)
        from == IF start < 0 THEN (IF len + start < 0 THEN 0 ELSE len + start)
                ELSE (IF start > len THEN len ELSE start)
        to == IF end < 0 THEN (IF len + end < 0 THEN 0 ELSE len + end)
              ELSE (IF end > len THEN len ELSE end)
    IN SubSeq(s, from + 1, to)

RECURSIVE InsertSorted(_, _, _, _)
\* x behind the last element of the sorted sequence that does not compare
\* greater than it.
InsertSorted(h, sorted, x, order) ==
    IF sorted # <<>> /\ compareDocuments(h, sorted[Len(sorted)], x, order) > 0
    THEN Append(InsertSorted(h, SubSeq(sorted, 1, Len(sorted) - 1), x, order), sorted[Len(sorted)])
    ELSE Append(sorted, x)

RECURSIVE SortDocuments(_, _, _)
\* [...result].sort((a, b) => this.compareDocuments(a, b, order)): the stable
\* insertion sort the engine runs on a short array.
SortDocuments(h, docs, order) ==
    IF docs = <<>> THEN <<>>
    ELSE InsertSorted(h, SortDocuments(h, SubSeq(docs, 1, Len(docs) - 1), order),
                      docs[Len(docs)], order)

RECURSIVE selectedFields(_, _, _, _)
\* The loop of applySelect over the select list.
selectedFields(h, d, select, acc) ==
    IF select = <<>> THEN acc
    ELSE selectedFields(h, d, Tail(select), Put(acc, Head(select), getAttribute(h, d, Head(select))))

\* The projection that keeps every key: a copy of the document.
applySelectKeepsAll(h, d, select) == clone(h, d)

\* MemoryAdapter.applySelect
applySelect(h, d, select) ==
    With(Alloc(h, MapNode(Put(Put(selectedFields(h, d, select, EmptyMap),
                                  kId, getId(h, d)), kCollection, getCollection(h, d)))),
         LAMBDA selected : NewDocument(selected.h, selected.v))

\* The switch of the first loop of applyQueries: the query put in its group.
switchMethod(acc, query) ==
    LET method == query.method
        value == First(query.values)
    IN CASE method = TYPE_LIMIT ->
              IF value.t = "num" THEN [acc EXCEPT !.limit = value.n, !.hasLimit = TRUE] ELSE acc
         [] method = TYPE_OFFSET ->
              IF value.t = "num" THEN [acc EXCEPT !.offset = value.n] ELSE acc
         [] method \in {TYPE_ORDER_ASC, TYPE_ORDER_DESC} ->
              [acc EXCEPT !.order = Append(@,
                 [attribute |-> query.attribute,
                  direction |-> IF method = TYPE_ORDER_ASC THEN "asc" ELSE "desc"])]
         [] method = TYPE_SELECT ->
              IF \A i \in 1..Len(query.values) : query.values[i].t = "str"
              THEN [acc EXCEPT !.select = [i \in 1..Len(query.values) |-> query.values[i].s],
                               !.hasSelect = TRUE]
              ELSE acc
         [] OTHER -> [acc EXCEPT !.filters = Append(@, query)]

RECURSIVE partitionUntilLimit(_, _)
\* The loop left at the first limit query: what stands behind it is not read.
partitionUntilLimit(queries, acc) ==
    IF queries = <<>> THEN acc
    ELSE IF Head(queries).method = TYPE_LIMIT THEN switchMethod(acc, Head(queries))
    ELSE partitionUntilLimit(Tail(queries), switchMethod(acc, Head(queries)))

RECURSIVE partition(_, _)
\* The first loop of applyQueries: the queries by group.
partition(queries, acc) ==
    IF queries = <<>> THEN acc
    ELSE partition(Tail(queries), switchMethod(acc, Head(queries)))

NoGroups ==
    [filters |-> <<>>, order |-> <<>>, limit |-> 0, hasLimit |-> FALSE, offset |-> 0,
     select |-> <<>>, hasSelect |-> FALSE]

RECURSIVE FilterDocuments(_, _, _)
\* documents.filter((document) => filters.every(...))
FilterDocuments(h, documents, filters) ==
    IF documents = <<>> THEN <<>>
    ELSE (IF \A i \in 1..Len(filters) : evaluate(h, Head(documents), filters[i])
          THEN <<Head(documents)>> ELSE <<>>)
         \o FilterDocuments(h, Tail(documents), filters)

RECURSIVE SelectDocuments(_, _, _, _)
\* result.map((document) => this.applySelect(document, select))
SelectDocuments(h, documents, select, acc) ==
    IF documents = <<>> THEN Ret(h, acc)
    ELSE With(applySelect(h, Head(documents), select),
              LAMBDA r : IF ~r.ok THEN Fail(h)
                         ELSE SelectDocuments(r.h, Tail(documents), select, Append(acc, r.v.a)))

\* The stages of applyQueries behind the partition.
stages(h, documents, g) ==
    With(FilterDocuments(h, documents, g.filters), LAMBDA filtered :
    With(IF Len(g.order) > 0 THEN SortDocuments(h, filtered, g.order) ELSE filtered, LAMBDA ordered :
    With(IF g.offset # 0 THEN Slice(ordered, g.offset, Len(ordered)) ELSE ordered, LAMBDA skipped :
    With(IF g.hasLimit THEN Slice(skipped, 0, g.limit) ELSE skipped, LAMBDA limited :
         IF g.hasSelect /\ Len(g.select) > 0
         THEN SelectDocuments(h, limited, g.select, <<>>)
         ELSE Ret(h, limited)))))

\* MemoryAdapter.applyQueries: documents the addresses of the cloned
\* Documents; the value returned is the sequence of the result's addresses.
applyQueries(h, documents, queries) == stages(h, documents, partition(queries, NoGroups))

----------------------------------------------------------------------------
(* MemoryAdapter.ts: the store.  A Map keeps its keys in insertion order:  *)
(* documents is the sequence of its entries.                               *)

StoredCollection(name) == [schema |-> [name |-> name], documents |-> <<>>]

MapHas(documents, key) == \E i \in 1..Len(documents) : documents[i].key = key
MapIndex(documents, key) == CHOOSE i \in 1..Len(documents) : documents[i].key = key
MapGet(documents, key) == documents[MapIndex(documents, key)].doc
MapSet(documents, key, doc) ==
    IF MapHas(documents, key)
    THEN [documents EXCEPT ![MapIndex(documents, key)] = [key |-> key, doc |-> doc]]
    ELSE Append(documents, [key |-> key, doc |-> doc])
RECURSIVE MapDelete(_, _)
MapDelete(documents, key) ==
    IF documents = <<>> THEN <<>>
    ELSE (IF Head(documents).key = key THEN <<>> ELSE <<Head(documents)>>)
         \o MapDelete(Tail(documents), key)

\* What a call gives back: thrown = TRUE is a rejected promise; doc = 0 is
\* null (or no Document returned).
Outcome(thrown, h, cols, doc, list, flag) ==
    [thrown |-> thrown, h |-> h, cols |-> cols, doc |-> doc, list |-> list, flag |-> flag]
Thrown(h, cols) == Outcome(TRUE, h, cols, 0, <<>>, FALSE)

\* MemoryAdapter.requireCollection: whether it returns (it throws otherwise).
requireCollection(cols, name) == name \in DOMAIN cols

\* MemoryAdapter.createCollection
createCollection(cols, name) == Put(cols, name, StoredCollection(name))

\* MemoryAdapter.deleteCollection
deleteCollection(cols, name) == Del(cols, name)

\* MemoryAdapter.createDocument
adapterCreateDocument(h, cols, c, d) ==
    IF ~requireCollection(cols, c) THEN Thrown(h, cols)
    ELSE With(clone(h, d), LAMBDA stored :
         IF ~stored.ok THEN Thrown(h, cols)
         ELSE With(clone(stored.h, d), LAMBDA returned :
              Outcome(~returned.ok, returned.h,
                      [cols EXCEPT ![c].documents = MapSet(@, getId(h, d).s, stored.v.a)],
                      IF returned.ok THEN returned.v.a ELSE 0, <<>>, FALSE)))

\* MemoryAdapter.updateDocument
adapterUpdateDocument(h, cols, c, d) ==
    IF ~requireCollection(cols, c) THEN Thrown(h, cols)
    ELSE With(clone(h, d), LAMBDA stored :
         IF ~stored.ok THEN Thrown(h, cols)
         ELSE With(clone(stored.h, d), LAMBDA returned :
              Outcome(~returned.ok, returned.h,
                      [cols EXCEPT ![c].documents = MapSet(@, getId(h, d).s, stored.v.a)],
                      IF returned.ok THEN returned.v.a ELSE 0, <<>>, FALSE)))

\* MemoryAdapter.deleteDocument
adapterDeleteDocument(h, cols, c, id) ==
    IF ~requireCollection(cols, c) THEN Thrown(h, cols)
    ELSE Outcome(FALSE, h, [cols EXCEPT ![c].documents = MapDelete(@, id)], 0, <<>>,
                 MapHas(cols[c].documents, id))

\* MemoryAdapter.getDocument
adapterGetDocument(h, cols, c, id) ==
    IF c \notin DOMAIN cols THEN Outcome(FALSE, h, cols, 0, <<>>, FALSE)
    ELSE IF ~MapHas(cols[c].documents, id) THEN Outcome(FALSE, h, cols, 0, <<>>, FALSE)
    ELSE With(clone(h, MapGet(cols[c].documents, id)),
              LAMBDA r : IF ~r.ok THEN Thrown(h, cols)
                         ELSE Outcome(FALSE, r.h, cols, r.v.a, <<>>, FALSE))

RECURSIVE cloneAll(_, _, _)
\* Array.from(stored.documents.values(), (doc) => doc.clone())
cloneAll(h, documents, acc) ==
    IF documents = <<>> THEN Ret(h, acc)
    ELSE With(clone(h, Head(documents).doc),
              LAMBDA r : IF ~r.ok THEN Fail(h)
                         ELSE cloneAll(r.h, Tail(documents), Append(acc, r.v.a)))

\* MemoryAdapter.listDocuments
adapterListDocuments(h, cols, c, queries) ==
    IF c \notin DOMAIN cols THEN Outcome(FALSE, h, cols, 0, <<>>, FALSE)
    ELSE With(cloneAll(h, cols[c].documents, <<>>), LAMBDA documents :
         IF ~documents.ok THEN Thrown(h, cols)
         ELSE With(applyQueries(documents.h, documents.v, queries), LAMBDA r :
              IF ~r.ok THEN Thrown(h, cols) ELSE Outcome(FALSE, r.h, cols, 0, r.v, FALSE)))

----------------------------------------------------------------------------
(* Database.ts *)

\* new Date().toISOString() at tick now of the clock
toISOString(now) == Str(NumToStr(now))

\* Database.createDocument: data the address of the caller's mapping;
\* options.id is id when hasId, the generated id genId otherwise.
databaseCreateDocument(h, cols, now, c, data, hasId, id, genId, hasPermissions, permissions) ==
    LET base == Put(Put(Put(Put(h[data].m, kId, Str(IF hasId THEN id ELSE genId)),
                            kCollection, Str(c)),
                        kCreatedAt, toISOString(now)), kUpdatedAt, toISOString(now))
    IN With(IF hasPermissions
            THEN With(Alloc(h, ArrNode(permissions)),
                      LAMBDA perms : Alloc(perms.h, MapNode(Put(base, kPermissions, perms.v))))
            ELSE Alloc(h, MapNode(base)), LAMBDA payload :
       With(NewDocument(payload.h, payload.v), LAMBDA document :
            IF ~document.ok THEN Thrown(h, cols)
            ELSE adapterCreateDocument(document.h, cols, c, document.v.a)))

RECURSIVE mergeEntries(_, _, _)
\* for (const [key, value] of Object.entries(data)) merged[key] = value
mergeEntries(merged, m, keys) ==
    IF keys = <<>> THEN merged
    ELSE mergeEntries(Put(merged, Head(keys), m[Head(keys)]), m, Tail(keys))

\* Database.updateDocument behind its await: existing the Document that
\* getDocument returned, now the time the continuation runs at.
databaseUpdateDocumentWrite(h, cols, now, c, existing, data) ==
    With(toJSON(h, existing), LAMBDA json :
    With(NewDocument([json.h EXCEPT ![json.v.a] =
                         MapNode(Put(mergeEntries(json.h[json.v.a].m, h[data].m,
                                                  SetToSeq(DOMAIN h[data].m)),
                                     kUpdatedAt, toISOString(now)))],
                     json.v), LAMBDA document :
         IF ~document.ok THEN Thrown(h, cols)
         ELSE adapterUpdateDocument(document.h, cols, c, document.v.a)))

\* Database.updateDocument run without a step of another caller between its
\* two halves.
databaseUpdateDocument(h, cols, now, c, id, data) ==
    With(adapterGetDocument(h, cols, c, id), LAMBDA o :
         IF o.thrown \/ o.doc = 0 THEN Thrown(h, cols)
         ELSE databaseUpdateDocumentWrite(o.h, cols, now, c, o.doc, data))

----------------------------------------------------------------------------
(* State *)

RECURSIVE DeepValue(_, _)
\* A value with every reference replaced by what it refers to.
DeepValue(h, v) ==
    IF v.t # "ref" THEN v
    ELSE IF h[v.a].k = "arr"
         THEN [k |-> "arr", s |-> [i \in 1..Len(h[v.a].s) |-> DeepValue(h, h[v.a].s[i])]]
         ELSE [k |-> h[v.a].k, m |-> [x \in DOMAIN h[v.a].m |-> DeepValue(h, h[v.a].m[x])]]

\* The content of the store: every collection with its schema and its
\* entries, each Document by value.
StoredView ==
    [c \in DOMAIN collections |->
        [schema |-> collections[c].schema,
         documents |-> [i \in 1..Len(collections[c].documents) |->
            [key |-> collections[c].documents[i].key,
             doc |-> DeepValue(heap, Ref(collections[c].documents[i].doc))]]]]

RECURSIVE DocsOf(_, _)
DocsOf(cols, names) ==
    IF names = <<>> THEN <<>>
    ELSE [j \in 1..Len(cols[Head(names)].documents) |-> cols[Head(names)].documents[j].doc]
         \o DocsOf(cols, Tail(names))

StoredRootSeq(cols) == DocsOf(cols, SetToSeq(DOMAIN cols))
StoredRoots(cols) == {StoredRootSeq(cols)[i] : i \in 1..Len(StoredRootSeq(cols))}

ResultRootSeq(res) == (IF res.doc = 0 THEN <<>> ELSE <<res.doc>>) \o res.list
ResultRoots(res) == {ResultRootSeq(res)[i] : i \in 1..Len(ResultRootSeq(res))}

RECURSIVE PendingRefs(_)
PendingRefs(ps) ==
    IF ps = <<>> THEN <<>> ELSE <<Head(ps).existing, Head(ps).data>> \o PendingRefs(Tail(ps))

PendingRootSeq(pend) == PendingRefs(SetToSeq(pend))

\* What the caller can reach: the objects it holds and the last result.
CallerRoots == held \cup ResultRoots(result)

\* The garbage collector.  What no root reaches is gone, and what is left
\* is numbered in the order a traversal from the roots meets it: an address
\* has no meaning beyond identity.
Collected(h, cols, hld, res, pend) ==
    With(Visit(h, StoredRootSeq(cols) \o ResultRootSeq(res) \o PendingRootSeq(pend)
                  \o SetToSeq(hld), <<>>), LAMBDA order :
    With([a \in {order[i] : i \in 1..Len(order)} |-> CHOOSE i \in 1..Len(order) : order[i] = a],
         LAMBDA at :
       [heap |-> [i \in 1..Len(order) |-> MoveNode(h[order[i]], at)],
        collections |-> [c \in DOMAIN cols |->
            [cols[c] EXCEPT !.documents =
                [j \in 1..Len(cols[c].documents) |->
                    [key |-> cols[c].documents[j].key, doc |-> at[cols[c].documents[j].doc]]]]],
        held |-> {at[a] : a \in hld},
        result |-> [doc |-> IF res.doc = 0 THEN 0 ELSE at[res.doc],
                    list |-> [i \in 1..Len(res.list) |-> at[res.list[i]]],
                    flag |-> res.flag],
        pending |-> {[p EXCEPT !.existing = at[p.existing], !.data = at[p.data]] : p \in pend}]))

NoResult == [doc |-> 0, list |-> <<>>, flag |-> FALSE]

\* A call as the caller sees it: what was called with what, and whether it
\* threw.  queries, input and output are filled in by the calls that have
\* them; calls is the set of the calls issued since the callers began to
\* interleave (SpecRace).
Call(op, layer, coll, id, thrown) ==
    [op |-> op, layer |-> layer, coll |-> coll, id |-> id, thrown |-> thrown,
     returned |-> IF thrown THEN "error" ELSE "other",
     queries |-> <<>>, input |-> Undef, output |-> Undef, calls |-> {}]

----------------------------------------------------------------------------
(* Bounds and inputs *)

MaxHeap == 10
MaxHeld == 1
MaxPending == 1
MaxClock == 1

\* collection names "u", "p"; document ids "x", "y"
cUsers == <<117>>
cPosts == <<112>>
idX == <<120>>
idY == <<121>>

\* "u" is the collection that is created and deleted; "p" never exists
CreatedNames == {cUsers}
CollectionNames == {cUsers, cPosts}
DocumentIds == {idX, idY}

LMap(m) == [t |-> "lmap", m |-> m]
LArr(s) == [t |-> "larr", items |-> s]

RECURSIVE Materialize(_, _)
RECURSIVE MaterializeEntries(_, _, _, _)
RECURSIVE MaterializeItems(_, _, _)
\* The caller writes an object literal: lit a tree of values.
Materialize(h, lit) ==
    IF lit.t = "lmap"
    THEN With(MaterializeEntries(h, lit.m, SetToSeq(DOMAIN lit.m), EmptyMap),
              LAMBDA r : Alloc(r.h, MapNode(r.v)))
    ELSE IF lit.t = "larr"
    THEN With(MaterializeItems(h, lit.items, <<>>), LAMBDA r : Alloc(r.h, ArrNode(r.v)))
    ELSE Ret(h, lit)

MaterializeEntries(h, m, keys, acc) ==
    IF keys = <<>> THEN Ret(h, acc)
    ELSE With(Materialize(h, m[Head(keys)]),
              LAMBDA r : MaterializeEntries(r.h, m, Tail(keys), Put(acc, Head(keys), r.v)))

MaterializeItems(h, items, acc) ==
    IF items = <<>> THEN Ret(h, acc)
    ELSE With(Materialize(h, Head(items)),
              LAMBDA r : MaterializeItems(r.h, Tail(items), Append(acc, r.v)))

\* the data of the Database calls: {a: 1}
StoreData == {LMap(kA :> Num(1))}

\* the Documents handed to the adapter: {$id: "x"}, {$id: "y", a: 1}
StoreDocuments == {LMap(kId :> Str(idX)), LMap((kId :> Str(idY)) @@ (kA :> Num(1)))}

----------------------------------------------------------------------------
(* Actions *)

\* What kind of value a call returned.
Returned(o) ==
    IF o.thrown THEN "error" ELSE IF o.doc # 0 THEN "document" ELSE "other"

\* The end of a call: the store and the caller's handles as the call left
\* them.  The caller keeps what the call returned (keep) or lets go of it.
Finish(o, call, hld, pend, keep) ==
    \E w \in {Collected(o.h, o.cols, hld,
                         IF o.thrown \/ ~keep THEN [NoResult EXCEPT !.flag = (~o.thrown /\ o.flag)]
                         ELSE [doc |-> o.doc, list |-> o.list, flag |-> o.flag],
                         pend)} :
       /\ Len(w.heap) <= MaxHeap
       /\ heap' = w.heap
       /\ collections' = w.collections
       /\ held' = w.held
       /\ result' = w.result
       /\ pending' = w.pending
       /\ last' = [call EXCEPT !.returned = Returned(o)]

\* The end of a step of the caller on its own objects.
FinishCaller(r, call, hld) ==
    \E w \in {Collected(r.h, collections, hld, result, pending)} :
       /\ Len(w.heap) <= MaxHeap
       /\ heap' = w.heap
       /\ collections' = w.collections
       /\ held' = w.held
       /\ result' = w.result
       /\ pending' = w.pending
       /\ last' = call

\* new Document(input), input an object literal.
CallerNewDocument(lit) ==
    /\ Cardinality(held) < MaxHeld
    /\ \E r \in {With(Materialize(heap, lit), LAMBDA input : NewDocument(input.h, input.v))} :
          FinishCaller(r, [Call("new", "document", <<>>, Str(<<>>), ~r.ok) EXCEPT !.input = lit],
                       IF r.ok THEN held \cup {r.v.a} ELSE held)
    /\ UNCHANGED clock

\* The caller forgets an object.
CallerDrop(a) ==
    /\ a \in held
    /\ FinishCaller(Ret(heap, Undef), Call("drop", "caller", <<>>, Str(<<>>), FALSE), held \ {a})
    /\ UNCHANGED clock

CallerReach == Reach(heap, CallerRoots)

\* document.setAttribute(key, value) on a Document the caller reaches (one it
\* holds, one it was returned, or one nested in them), value a literal.
CallerSetAttribute(target, key, lit) ==
    /\ target \in CallerReach /\ heap[target].k = "doc"
    /\ \E r \in {With(Materialize(heap, lit),
                      LAMBDA value : setAttribute(value.h, target, key, value.v))} :
          FinishCaller(r, [Call("setAttribute", "document", <<>>, Str(key), ~r.ok)
                              EXCEPT !.input = lit], held)
    /\ UNCHANGED clock

\* document.removeAttribute(key)
CallerRemoveAttribute(target, key) ==
    /\ target \in CallerReach /\ heap[target].k = "doc"
    /\ key \in DOMAIN heap[target].m
    /\ FinishCaller(removeAttribute(heap, target, key),
                    Call("removeAttribute", "document", <<>>, Str(key), FALSE), held)
    /\ UNCHANGED clock

\* object[key] = value on a plain object that getAttribute gave the caller.
CallerWrite(target, key, value) ==
    /\ target \in CallerReach /\ heap[target].k = "map"
    /\ FinishCaller(Ret([heap EXCEPT ![target] = MapNode(Put(heap[target].m, key, value))], Undef),
                    Call("write", "caller", <<>>, Str(key), FALSE), held)
    /\ UNCHANGED clock

CreateCollection(name) ==
    /\ Finish(Outcome(FALSE, heap, createCollection(collections, name), 0, <<>>, FALSE),
              Call("createCollection", "adapter", name, Str(<<>>), FALSE), held, pending, FALSE)
    /\ UNCHANGED clock

DeleteCollection(name) ==
    /\ Finish(Outcome(FALSE, heap, deleteCollection(collections, name), 0, <<>>, FALSE),
              Call("deleteCollection", "adapter", name, Str(<<>>), FALSE), held, pending, FALSE)
    /\ UNCHANGED clock

\* adapter.createDocument(c, d), d a Document the caller holds.
AdapterCreateDocument(c, d, keep) ==
    /\ d \in held /\ heap[d].k = "doc"
    /\ \E o \in {adapterCreateDocument(heap, collections, c, d)} :
          Finish(o, Call("createDocument", "adapter", c, getId(heap, d), o.thrown), held, pending, keep)
    /\ UNCHANGED clock

\* adapter.updateDocument(c, d), d a Document the caller holds.
AdapterUpdateDocument(c, d, keep) ==
    /\ d \in held /\ heap[d].k = "doc"
    /\ \E o \in {adapterUpdateDocument(heap, collections, c, d)} :
          Finish(o, Call("updateDocument", "adapter", c, getId(heap, d), o.thrown), held, pending, keep)
    /\ UNCHANGED clock

\* adapter.createDocument(c, new Document(lit))
AdapterCreateDocumentOf(c, lit, keep) ==
    /\ \E d \in {With(Materialize(heap, lit), LAMBDA input : NewDocument(input.h, input.v))} :
          /\ d.ok
          /\ \E o \in {adapterCreateDocument(d.h, collections, c, d.v.a)} :
                Finish(o, Call("createDocument", "adapter", c, getId(d.h, d.v.a), o.thrown),
                       held, pending, keep)
    /\ UNCHANGED clock

\* adapter.updateDocument(c, new Document(lit))
AdapterUpdateDocumentOf(c, lit, keep) ==
    /\ \E d \in {With(Materialize(heap, lit), LAMBDA input : NewDocument(input.h, input.v))} :
          /\ d.ok
          /\ \E o \in {adapterUpdateDocument(d.h, collections, c, d.v.a)} :
                Finish(o, Call("updateDocument", "adapter", c, getId(d.h, d.v.a), o.thrown),
                       held, pending, keep)
    /\ UNCHANGED clock

DeleteDocument(layer, c, id, keep) ==
    /\ \E o \in {adapterDeleteDocument(heap, collections, c, id)} :
          Finish(o, Call("deleteDocument", layer, c, Str(id), o.thrown), held, pending, keep)
    /\ UNCHANGED clock

GetDocument(layer, c, id, keep) ==
    /\ \E o \in {adapterGetDocument(heap, collections, c, id)} :
          Finish(o, Call("getDocument", layer, c, Str(id), o.thrown), held, pending, keep)
    /\ UNCHANGED clock

\* Database.listDocuments hands the adapter a clone of every query.
ListDocuments(layer, c, queries, keep) ==
    /\ \E o \in {adapterListDocuments(heap, collections, c,
                     IF layer = "database" THEN [i \in 1..Len(queries) |-> cloneQuery(queries[i])]
                     ELSE queries)} :
          Finish(o, [Call("listDocuments", layer, c, Str(<<>>), o.thrown) EXCEPT !.queries = queries],
                 held, pending, keep)
    /\ UNCHANGED clock

\* Database.createDocument(c, data, options), data an object literal.
DatabaseCreateDocument(c, lit, hasId, id, genId, hasPermissions, permissions, keep) ==
    /\ \E o \in {With(Materialize(heap, lit), LAMBDA data :
                     databaseCreateDocument(data.h, collections, clock, c, data.v.a, hasId, id,
                                            genId, hasPermissions, permissions))} :
          Finish(o, Call("createDocument", "database", c, Str(IF hasId THEN id ELSE genId), o.thrown),
                 held, pending, keep)
    /\ UNCHANGED clock

\* Database.updateDocument up to its await: getDocument has answered.
DatabaseUpdateDocumentRead(c, id, lit) ==
    /\ Cardinality(pending) < MaxPending
    /\ \E data \in {Materialize(heap, lit)} :
       \E o \in {adapterGetDocument(data.h, collections, c, id)} :
          Finish([o EXCEPT !.thrown = (o.doc = 0), !.doc = 0],
                 Call("updateDocument", "database", c, Str(id), o.doc = 0), held,
                 IF o.doc = 0 THEN pending
                 ELSE pending \cup {[coll |-> c, id |-> id, data |-> data.v.a, existing |-> o.doc]},
                 FALSE)
    /\ UNCHANGED clock

\* Database.updateDocument from its await on.
DatabaseUpdateDocumentWrite(p, keep) ==
    /\ p \in pending
    /\ \E o \in {databaseUpdateDocumentWrite(heap, collections, clock, p.coll, p.existing,
                                            p.data)} :
          Finish(o, Call("updateDocumentWrite", "database", p.coll, Str(p.id), o.thrown), held,
                 pending \ {p}, keep)
    /\ UNCHANGED clock

\* The caller lets go of what the last call returned.
CallerRelease ==
    /\ result # NoResult
    /\ Finish(Outcome(FALSE, heap, collections, 0, <<>>, FALSE),
              Call("release", "caller", <<>>, Str(<<>>), FALSE), held, pending, FALSE)
    /\ UNCHANGED clock

Tick ==
    /\ clock < MaxClock
    /\ clock' = clock + 1
    /\ UNCHANGED <<heap, collections, held, result, pending, last>>

Init ==
    /\ heap = <<>>
    /\ collections = EmptyMap
    /\ held = {}
    /\ result = NoResult
    /\ pending = {}
    /\ last = Call("init", "", <<>>, Str(<<>>), FALSE)
    /\ clock = 0

\* The store under both layers, flat documents; the caller looks at what a
\* call returns and lets go of it.
NextStore ==
    \/ \E name \in CreatedNames : CreateCollection(name)
    \/ \E name \in CreatedNames : DeleteCollection(name)
    \/ \E c \in CollectionNames, lit \in StoreDocuments : AdapterCreateDocumentOf(c, lit, FALSE)
    \/ \E c \in CollectionNames, lit \in StoreDocuments : AdapterUpdateDocumentOf(c, lit, FALSE)
    \/ \E layer \in {"adapter", "database"}, c \in CollectionNames, id \in DocumentIds :
          DeleteDocument(layer, c, id, FALSE)
    \/ \E layer \in {"adapter", "database"}, c \in CollectionNames, id \in DocumentIds :
          GetDocument(layer, c, id, FALSE)
    \/ \E layer \in {"adapter", "database"}, c \in CollectionNames :
          ListDocuments(layer, c, <<>>, FALSE)
    \/ \E c \in CollectionNames, lit \in StoreData, id \in DocumentIds :
          DatabaseCreateDocument(c, lit, TRUE, id, <<>>, FALSE, <<>>, FALSE)
    \/ \E c \in CollectionNames, id \in DocumentIds, lit \in StoreData :
          DatabaseUpdateDocumentRead(c, id, lit)
    \/ \E p \in pending : DatabaseUpdateDocumentWrite(p, FALSE)

SpecStore == Init /\ [][NextStore]_vars

----------------------------------------------------------------------------
(* The evaluator under listDocuments (SpecEval): three documents, stored in *)
(* any order, listed under the query lists below; the caller looks at one   *)
(* result at a time.                                                        *)

MaxPage == 2

\* "9"
s9 == <<57>>
idZ == <<122>>

\* {$id: "x", a: 10, b: 1}, {$id: "y", $collection: "u", a: "9", b: 1},
\* {$id: "z", a: 10}
EvalDocuments ==
    {LMap((kId :> Str(idX)) @@ (kA :> Num(10)) @@ (kB :> Num(1))),
     LMap((kId :> Str(idY)) @@ (kCollection :> Str(cUsers)) @@ (kA :> Str(s9)) @@ (kB :> Num(1))),
     LMap((kId :> Str(idZ)) @@ (kA :> Num(10)))}

PageBases == {<<>>, <<QOrderAsc(kA)>>, <<QEqual(kB, <<Num(1)>>)>>}

PageQueries ==
    {base \o <<QOffset(Num(k)), QLimit(Num(n))>> :
        base \in PageBases, k \in (0 - 1)..MaxPage, n \in (0 - 1)..MaxPage}

StageQueries ==
    LET f == QEqual(kB, <<Num(1)>>)
        o == QOrderDesc(kA)
        l == QLimit(Num(1))
        k == QOffset(Num(1))
        p == QSelect(<<Str(kA)>>)
    IN {<<f, o, l, p>>, <<l, f, o, p>>, <<p, l, o, f>>, <<o, p, f, l>>,
        <<k, f>>, <<f, k>>, <<l, f>>, <<p, f>>}

SelectQueries ==
    {<<QSelect(<<Str(kA)>>)>>, <<QSelect(<<Str(kB), Str(kM)>>)>>, <<QSelect(<<Str(kId)>>)>>,
     <<QSelect(<<Str(kA)>>), QSelect(<<Str(kB)>>)>>, <<QSelect(<<>>)>>}

OrderQueries ==
    {<<QOrderAsc(kA)>>, <<QOrderDesc(kA)>>, <<QOrderAsc(kB)>>, <<QOrderDesc(kB), QOrderAsc(kA)>>,
     <<QOrderAsc(kB), QOrderDesc(kA)>>}

EvalQueries == PageQueries \cup StageQueries \cup SelectQueries \cup OrderQueries

NextEval ==
    \/ CreateCollection(cUsers)
    \/ \E lit \in EvalDocuments : AdapterCreateDocumentOf(cUsers, lit, FALSE)
    \/ \E layer \in {"adapter", "database"}, queries \in EvalQueries :
          result = NoResult /\ ListDocuments(layer, cUsers, queries, TRUE)
    \/ CallerRelease

SpecEval == Init /\ [][NextEval]_vars

----------------------------------------------------------------------------
(* Documents in the caller's hands (SpecDoc): the caller constructs a       *)
(* Document from an object literal, assigns and removes attributes.         *)

\* "r"
sR == <<114>>

\* {}, {$id: "x"}, {$id: 5}, {$id: null}, {$permissions: ["r", 1]},
\* {$permissions: "x"}, {$id: "y", a: 1}
DocLiterals ==
    {LMap(EmptyMap), LMap(kId :> Str(idX)), LMap(kId :> Num(5)), LMap(kId :> Null),
     LMap(kPermissions :> LArr(<<Str(sR), Num(1)>>)), LMap(kPermissions :> Str(idX)),
     LMap((kId :> Str(idY)) @@ (kA :> Num(1)))}

AssignedKeys == {kId, kPermissions, kA}

\* 5, "x", null, ["r"], [1]
AssignedValues == {Num(5), Str(idX), Null, LArr(<<Str(sR)>>), LArr(<<Num(1)>>)}

NextDoc ==
    \/ \E lit \in DocLiterals : CallerNewDocument(lit)
    \/ \E a \in held : CallerDrop(a)
    \/ \E target \in held, key \in AssignedKeys, lit \in AssignedValues :
          CallerSetAttribute(target, key, lit)
    \/ \E target \in held, key \in AssignedKeys : CallerRemoveAttribute(target, key)

SpecDoc == Init /\ [][NextDoc]_vars

----------------------------------------------------------------------------
(* Queries in the caller's hands (SpecQuery): the caller holds at most one  *)
(* Document, to use as an operand, and the query the last call returned,    *)
(* to nest under and/or and to send through toString and parse.            *)

MaxDepth == 2

\* "bogus", no method
sBogus == <<98, 111, 103, 117, 115>>

RECURSIVE Depth(_)
\* The nesting depth of a query.
Depth(q) ==
    IF q.method \notin LOGICAL_METHODS \/ q.values = <<>> THEN 1
    ELSE 1 + (CHOOSE d \in {Depth(q.values[i]) : i \in 1..Len(q.values)} :
                 \A i \in 1..Len(q.values) : Depth(q.values[i]) <= d)

\* {$id: "x"}, {a: 1}
OperandDocuments == {LMap(kId :> Str(idX)), LMap(kA :> Num(1))}

\* 1, "x", a string that is one double quote, null, undefined, true,
\* [1, "x"], and the Document the caller holds
Operands ==
    {Num(1), Str(idX), Str(<<34>>), Null, Undef, Bool(TRUE), JArr(<<Num(1), Str(idX)>>)}
      \cup {Ref(a) : a \in held}

OperandLists == {<<>>} \cup {<<v>> : v \in Operands} \cup {<<Undef, Ref(a)>> : a \in held}

\* {method: "equal", attribute: "a", values: [1]}, {method: "limit"},
\* {method: "bogus", values: []}
jEqual ==
    JObj(<<[k |-> kMethod, v |-> Str(TYPE_EQUAL)], [k |-> kAttribute, v |-> Str(kA)],
           [k |-> kValues, v |-> JArr(<<Num(1)>>)]>>)
jLimit == JObj(<<[k |-> kMethod, v |-> Str(TYPE_LIMIT)]>>)
jBogus == JObj(<<[k |-> kMethod, v |-> Str(sBogus)], [k |-> kValues, v |-> JArr(<<>>)]>>)

\* a logical QueryJSON
jLogical(method, values) ==
    JObj(<<[k |-> kMethod, v |-> Str(method)], [k |-> kValues, v |-> JArr(values)]>>)

\* the three above, and(equal, bogus), or(equal), and(1), {method: 5},
\* {method: "equal", values: "x"}
JSONInputs ==
    {jEqual, jLimit, jBogus, jLogical(TYPE_AND, <<jEqual, jBogus>>),
     jLogical(TYPE_OR, <<jEqual>>), jLogical(TYPE_AND, <<Num(1)>>),
     JObj(<<[k |-> kMethod, v |-> Num(5)]>>),
     JObj(<<[k |-> kMethod, v |-> Str(TYPE_EQUAL)], [k |-> kValues, v |-> Str(idX)]>>)}

\* the texts of the JSON inputs, and by hand: '{', ' {"method" : "limit"} ',
\* '{"method":"equal","method":"bogus"}', '{"method":"select","values":[-10,false]}'
ParseInputs ==
    {Write(j) : j \in JSONInputs}
      \cup {<<123>>,
            <<32, 123, 34, 109, 101, 116, 104, 111, 100, 34, 32, 58, 32, 34, 108, 105, 109, 105, 116, 34, 125, 32>>,
            <<123, 34, 109, 101, 116, 104, 111, 100, 34, 58, 34, 101, 113, 117, 97, 108, 34, 44, 34, 109, 101, 116, 104, 111, 100, 34, 58, 34, 98, 111, 103, 117, 115, 34, 125>>,
            <<123, 34, 109, 101, 116, 104, 111, 100, 34, 58, 34, 115, 101, 108, 101, 99, 116, 34, 44, 34, 118, 97, 108, 117, 101, 115, 34, 58, 91, 45, 49, 48, 44, 102, 97, 108, 115, 101, 93, 125>>}

\* What the caller nests under a logical method: the query it holds, alone
\* or before a QueryJSON, a QueryJSON, nothing, a number, its Document.
LogicalOperandLists ==
    (IF last.output.t = "query" THEN {<<last.output>>, <<last.output, jLimit>>} ELSE {})
      \cup {<<jEqual>>, <<jBogus>>, <<>>, <<Num(1)>>} \cup {<<Ref(a)>> : a \in held}

\* The end of a call that makes a query: r is what it returned or threw.
FinishQuery(op, input, r) ==
    /\ r.ok => Depth(r.q) <= MaxDepth
    /\ last' = [Call(op, "query", <<>>, Str(<<>>), ~r.ok)
                   EXCEPT !.input = input, !.output = IF r.ok THEN r.q ELSE Undef]
    /\ UNCHANGED <<heap, collections, held, result, pending, clock>>

\* new Query(method, attribute, values)
QueryConstruct(method, attribute, values) ==
    \E r \in {NewQuery(method, attribute, values)} :
       FinishQuery("construct", QueryObj(method, attribute, values), r)

\* Query.fromJSON(json)
QueryFromJSON(json) ==
    \E r \in {fromJSON(json)} : FinishQuery("fromJSON", json, r)

\* Query.parse(text)
QueryParse(text) ==
    \E r \in {parse(text)} : FinishQuery("parse", Str(text), r)

\* Query.parse(q.toString()), q the query the caller holds.
QueryRoundTrip ==
    /\ last.output.t = "query"
    /\ \E r \in {parse(queryToString(heap, last.output))} :
          FinishQuery("roundTrip", last.output, r)

NextQuery ==
    \/ \E lit \in OperandDocuments : held = {} /\ CallerNewDocument(lit)
    \/ \E method \in {TYPE_EQUAL, TYPE_LIMIT, sBogus}, attribute \in {<<>>, kA},
          values \in OperandLists : QueryConstruct(method, attribute, values)
    \/ \E method \in LOGICAL_METHODS, values \in LogicalOperandLists :
          QueryConstruct(method, <<>>, values)
    \/ \E json \in JSONInputs : QueryFromJSON(json)
    \/ \E text \in ParseInputs : QueryParse(text)
    \/ QueryRoundTrip

SpecQuery == Init /\ [][NextQuery]_vars

----------------------------------------------------------------------------
(* The caller against the store (SpecAlias): the caller holds Documents     *)
(* with a nested Document or a nested object, hands them to the store,      *)
(* keeps what the store returns, and changes whatever it can reach.         *)

\* {$id: "x", m: {$id: "y", a: 1}}, {$id: "x", m: {a: 1}}
AliasDocuments ==
    {LMap((kId :> Str(idX)) @@ (kM :> LMap((kId :> Str(idY)) @@ (kA :> Num(1))))),
     LMap((kId :> Str(idX)) @@ (kM :> LMap(kA :> Num(1))))}

\* the data of Database.createDocument: {m: {$id: "y", a: 1}}
AliasData == {LMap(kM :> LMap((kId :> Str(idY)) @@ (kA :> Num(1))))}

\* The caller awaits every call: nothing happens between the two halves of a
\* Database.updateDocument.
Awaited == pending = {}

NextAlias ==
    \/ Awaited /\ CreateCollection(cUsers)
    \/ \E lit \in AliasDocuments : Awaited /\ CallerNewDocument(lit)
    \/ \E a \in held : Awaited /\ CallerDrop(a)
    \/ \E d \in held, keep \in BOOLEAN :
          Awaited /\ result = NoResult /\ AdapterCreateDocument(cUsers, d, keep)
    \/ \E d \in held, keep \in BOOLEAN :
          Awaited /\ result = NoResult /\ AdapterUpdateDocument(cUsers, d, keep)
    \/ \E lit \in AliasData :
          Awaited /\ result = NoResult
            /\ DatabaseCreateDocument(cUsers, lit, TRUE, idX, <<>>, FALSE, <<>>, TRUE)
    \/ \E lit \in StoreData :
          Awaited /\ result = NoResult /\ DatabaseUpdateDocumentRead(cUsers, idX, lit)
    \/ \E p \in pending : DatabaseUpdateDocumentWrite(p, TRUE)
    \/ \E layer \in {"adapter", "database"} :
          Awaited /\ result = NoResult /\ GetDocument(layer, cUsers, idX, TRUE)
    \/ \E layer \in {"adapter", "database"} :
          Awaited /\ result = NoResult /\ ListDocuments(layer, cUsers, <<>>, TRUE)
    \/ \E target \in CallerReach : Awaited /\ CallerSetAttribute(target, kA, Num(2))
    \/ \E target \in CallerReach : Awaited /\ CallerRemoveAttribute(target, kA)
    \/ \E target \in CallerReach : Awaited /\ CallerWrite(target, kA, Num(2))
    \/ Awaited /\ CallerRelease

SpecAlias == Init /\ [][NextAlias]_vars

----------------------------------------------------------------------------
(* Sorting on an attribute that is null or absent (SpecOrder): four         *)
(* documents, stored in any order, listed under orderAsc and orderDesc.     *)

idW == <<119>>

\* {$id: "x", a: null}, {$id: "y"}, {$id: "z", a: 1}, {$id: "w", a: 2}
OrderDocuments ==
    {LMap((kId :> Str(idX)) @@ (kA :> Null)),
     LMap(kId :> Str(idY)),
     LMap((kId :> Str(idZ)) @@ (kA :> Num(1))),
     LMap((kId :> Str(idW)) @@ (kA :> Num(2)))}

NullishQueries == {<<QOrderAsc(kA)>>, <<QOrderDesc(kA)>>}

NextOrder ==
    \/ CreateCollection(cUsers)
    \/ \E lit \in OrderDocuments : AdapterCreateDocumentOf(cUsers, lit, FALSE)
    \/ \E layer \in {"adapter", "database"}, queries \in NullishQueries :
          result = NoResult /\ ListDocuments(layer, cUsers, queries, TRUE)
    \/ CallerRelease

SpecOrder == Init /\ [][NextOrder]_vars

----------------------------------------------------------------------------
(* Exports in the caller's hands (SpecExport): the caller constructs a      *)
(* Document that nests a Document at some depth, exports it and writes to   *)
(* what it was given.                                                       *)

\* document.toJSON() of a Document the caller holds; the caller looks at the
\* export.
CallerToJSON(d) ==
    /\ d \in held /\ heap[d].k = "doc"
    /\ result = NoResult
    /\ \E r \in {toJSON(heap, d)} :
          Finish(Outcome(FALSE, r.h, collections, r.v.a, <<>>, FALSE),
                 Call("toJSON", "document", <<>>, getId(heap, d), FALSE), held, pending, TRUE)
    /\ UNCHANGED clock

\* {$id: "y", a: 1}: the nested document
lNested == LMap((kId :> Str(idY)) @@ (kA :> Num(1)))

\* {$id: "x", m: v}, v the nested document: under the key, in a sequence, in
\* a sequence of sequences, in a plain mapping; and v without a Document: a
\* plain mapping, a sequence of a sequence
ExportDocuments ==
    {LMap((kId :> Str(idX)) @@ (kM :> v)) :
        v \in {lNested, LArr(<<lNested>>), LArr(<<LArr(<<lNested>>)>>), LMap(kB :> lNested),
               LMap(kB :> Num(1)), LArr(<<LArr(<<Num(1)>>)>>)}}

NextExport ==
    \/ \E lit \in ExportDocuments : CallerNewDocument(lit)
    \/ \E a \in held : CallerDrop(a)
    \/ \E d \in held : CallerToJSON(d)
    \/ \E target \in CallerReach : CallerWrite(target, kA, Num(2))
    \/ \E target \in CallerReach : CallerSetAttribute(target, kA, Num(2))
    \/ CallerRelease

SpecExport == Init /\ [][NextExport]_vars

----------------------------------------------------------------------------
(* Logical queries under listDocuments (SpecLogic): the three documents of  *)
(* the evaluator, listed under and/or queries that nest limit, offset,      *)
(* order and select queries among their filters.                            *)

LogicQueries ==
    LET f == QEqual(kB, <<Num(1)>>)
        g == QEqual(kA, <<Num(10)>>)
        n == QEqual(kB, <<Num(2)>>)
        l == QLimit(Num(1))
        k == QOffset(Num(1))
        o == QOrderDesc(kA)
        u == QOrderAsc(kA)
        p == QSelect(<<Str(kA)>>)
    IN {<<QOr(<<f>>)>>, <<QOr(<<n, g>>)>>, <<QAnd(<<f, g>>)>>, <<QOr(<<>>)>>,
        <<QOr(<<f, l>>)>>, <<QOr(<<k>>)>>, <<QOr(<<o, n>>)>>, <<QOr(<<u, f>>)>>, <<QOr(<<p, g>>)>>,
        <<QAnd(<<f, l>>)>>, <<QAnd(<<k, n>>)>>, <<QAnd(<<o, p, u>>)>>,
        <<QOr(<<QAnd(<<l>>), n>>)>>, <<QAnd(<<QOr(<<f, p>>), g>>)>>,
        <<o, QOr(<<f, l>>)>>, <<QOr(<<n, k>>), l>>, <<p, QAnd(<<g, o>>)>>, <<k, f>>, <<u, l>>}

NextLogic ==
    \/ CreateCollection(cUsers)
    \/ \E lit \in EvalDocuments : AdapterCreateDocumentOf(cUsers, lit, FALSE)
    \/ \E layer \in {"adapter", "database"}, queries \in LogicQueries :
          result = NoResult /\ ListDocuments(layer, cUsers, queries, TRUE)
    \/ CallerRelease

SpecLogic == Init /\ [][NextLogic]_vars

----------------------------------------------------------------------------
(* Interleaved callers (SpecRace): the document x of the collection u is    *)
(* created; then each of three updateDocument calls and one deleteDocument  *)
(* call on x is issued once, by callers that do not wait for each other.    *)
(* An updateDocument call is two steps, its await between them.             *)

MaxRacing == 2

\* {a: 1}: the data x is created with
RaceDocument == LMap(kA :> Num(1))

\* the calls: updateDocument('u', 'x', data) under three names, and
\* deleteDocument('u', 'x')
RaceUpdates == {"update a 2", "update b 2", "update a 3"}
RaceCalls == RaceUpdates \cup {"delete"}

\* the data of an updateDocument call: {a: 2}, {b: 2}, {a: 3}
RaceData(n) ==
    IF n = "update a 2" THEN LMap(kA :> Num(2))
    ELSE IF n = "update b 2" THEN LMap(kB :> Num(2))
    ELSE LMap(kA :> Num(3))

\* The store before the first of the calls: u with x.
BaseStore(now) ==
    With(Materialize(<<>>, RaceDocument), LAMBDA data :
         databaseCreateDocument(data.h, createCollection(EmptyMap, cUsers), now, cUsers, data.v.a,
                                TRUE, idX, <<>>, FALSE, <<>>))

\* The content of a store, as StoredView gives it for the state.
StoredViewOf(h, cols) ==
    [c \in DOMAIN cols |->
        [schema |-> cols[c].schema,
         documents |-> [i \in 1..Len(cols[c].documents) |->
            [key |-> cols[c].documents[i].key,
             doc |-> DeepValue(h, Ref(cols[c].documents[i].doc))]]]]

\* No call was issued yet, or the calls began on the store with x alone.
Racing == last.calls # {}
RaceReady == Racing \/ (pending = {} /\ StoredView = With(BaseStore(clock), LAMBDA o : StoredViewOf(o.h, o.cols)))

\* Database.updateDocument('u', 'x', data) of the call n up to its await.
RaceUpdateRead(n) ==
    /\ RaceReady /\ n \notin last.calls
    /\ Cardinality(pending) < MaxRacing
    /\ \E data \in {Materialize(heap, RaceData(n))} :
       \E o \in {adapterGetDocument(data.h, collections, cUsers, idX)} :
          Finish([o EXCEPT !.thrown = (o.doc = 0), !.doc = 0],
                 [Call("updateDocument", "database", cUsers, Str(idX), o.doc = 0)
                     EXCEPT !.calls = last.calls \cup {n}],
                 held,
                 IF o.doc = 0 THEN pending
                 ELSE pending \cup {[coll |-> cUsers, id |-> idX, data |-> data.v.a,
                                     existing |-> o.doc]},
                 FALSE)
    /\ UNCHANGED clock

\* Database.updateDocument from its await on, other calls having run.
RaceUpdateWrite(p) ==
    /\ Racing /\ p \in pending
    /\ \E o \in {databaseUpdateDocumentWrite(heap, collections, clock, p.coll, p.existing,
                                            p.data)} :
          Finish(o, [Call("updateDocumentWrite", "database", p.coll, Str(p.id), o.thrown)
                        EXCEPT !.calls = last.calls],
                 held, pending \ {p}, FALSE)
    /\ UNCHANGED clock

\* Database.deleteDocument('u', 'x')
RaceDelete ==
    /\ RaceReady /\ "delete" \notin last.calls
    /\ \E o \in {adapterDeleteDocument(heap, collections, cUsers, idX)} :
          Finish(o, [Call("deleteDocument", "database", cUsers, Str(idX), o.thrown)
                        EXCEPT !.calls = last.calls \cup {"delete"}],
                 held, pending, FALSE)
    /\ UNCHANGED clock

NextRace ==
    \/ ~Racing /\ CreateCollection(cUsers)
    \/ ~Racing /\ DatabaseCreateDocument(cUsers, RaceDocument, TRUE, idX, <<>>, FALSE, <<>>, FALSE)
    \/ \E n \in RaceUpdates : RaceUpdateRead(n)
    \/ \E p \in pending : RaceUpdateWrite(p)
    \/ RaceDelete

SpecRace == Init /\ [][NextRace]_vars

----------------------------------------------------------------------------
(* Data that names an id or a collection (SpecKeys): one caller, awaiting   *)
(* every call, creates, updates and deletes the documents x and y of the    *)
(* collection u with data that may carry $id or $collection.                *)

\* {a: 1}, {$id: "y"}, {$collection: "p"}, {$id: "y", $collection: "u", a: 2}
KeyData ==
    {LMap(kA :> Num(1)), LMap(kId :> Str(idY)), LMap(kCollection :> Str(cPosts)),
     LMap((kId :> Str(idY)) @@ (kCollection :> Str(cUsers)) @@ (kA :> Num(2)))}

NextKeys ==
    \/ Awaited /\ CreateCollection(cUsers)
    \/ \E lit \in KeyData, id \in DocumentIds :
          Awaited /\ DatabaseCreateDocument(cUsers, lit, TRUE, id, <<>>, FALSE, <<>>, FALSE)
    \/ \E lit \in KeyData :
          Awaited /\ DatabaseCreateDocument(cUsers, lit, FALSE, <<>>, idZ, FALSE, <<>>, FALSE)
    \/ \E id \in DocumentIds, lit \in KeyData :
          Awaited /\ DatabaseUpdateDocumentRead(cUsers, id, lit)
    \/ \E p \in pending : DatabaseUpdateDocumentWrite(p, FALSE)
    \/ \E id \in DocumentIds : Awaited /\ DeleteDocument("database", cUsers, id, FALSE)

SpecKeys == Init /\ [][NextKeys]_vars

Next ==
    NextStore \/ NextEval \/ NextDoc \/ NextQuery \/ NextAlias \/ NextOrder \/ NextExport
        \/ NextLogic \/ NextRace \/ NextKeys \/ Tick
Spec == Init /\ [][Next]_vars

----------------------------------------------------------------------------
(* Properties of the store (SpecStore) *)

DocumentExists(cols, c, id) == c \in DOMAIN cols /\ MapHas(cols[c].documents, id)

DocumentOps ==
    {"createDocument", "updateDocument", "updateDocumentWrite", "deleteDocument",
     "getDocument", "listDocuments"}

\* C4: an updateDocument call, of the Database or of the adapter, for an id
\* that is not in the named collection throws and leaves every collection as
\* it was: it inserts nothing.
C4_UpdateOfMissingIdFails ==
    [][(last'.op = "updateDocument" /\ ~DocumentExists(collections, last'.coll, last'.id.s))
          => (last'.thrown /\ StoredView' = StoredView)]_vars

\* C5: every document operation on a collection name that does not exist
\* (never created, or deleted) throws and changes nothing.
C5_MissingCollectionFails ==
    [][(last'.op \in DocumentOps /\ last'.coll \notin DOMAIN collections)
          => (last'.thrown /\ StoredView' = StoredView)]_vars
----------------------------------------------------------------------------
(* Properties of the evaluator (SpecEval) *)

Max(a, b) == IF a > b THEN a ELSE b
Min(a, b) == IF a < b THEN a ELSE b

\* What the last call returned, each Document by value.
ResultView == [i \in 1..Len(result.list) |-> DeepValue(heap, Ref(result.list[i]))]

\* What adapter.listDocuments(c, queries) returns in this state, by value.
Listing(c, queries) ==
    With(adapterListDocuments(heap, collections, c, queries),
         LAMBDA o : [i \in 1..Len(o.list) |-> DeepValue(o.h, Ref(o.list[i]))])

\* The last call was a listDocuments on an existing collection.
IsListing == last.op = "listDocuments" /\ ~last.thrown /\ last.coll \in DOMAIN collections

Count(queries, method) == Cardinality({i \in 1..Len(queries) : queries[i].method = method})
Without(queries, methods) == SelectSeq(queries, LAMBDA q : q.method \notin methods)
Only(queries, methods) == SelectSeq(queries, LAMBDA q : q.method \in methods)

\* The operand of the one query of the method.
Operand(queries, method) == Only(queries, {method})[1].values[1].n

\* The elements at the positions k .. k+n-1 of s, the first position being 0.
Positions(s, k, n) == SubSeq(s, Max(k, 0) + 1, Min(k + n, Len(s)))

\* C1: with offset(k) and limit(n) in the query list, listDocuments returns
\* the elements at positions k .. k+n-1 of the filtered and ordered set (what
\* the list returns without the two queries), for every number k and n.
C1_PageIsPositions ==
    (IsListing /\ Count(last.queries, TYPE_OFFSET) = 1 /\ Count(last.queries, TYPE_LIMIT) = 1)
        => ResultView = Positions(Listing(last.coll, Without(last.queries, {TYPE_OFFSET, TYPE_LIMIT})),
                                  Operand(last.queries, TYPE_OFFSET), Operand(last.queries, TYPE_LIMIT))

\* The group a query belongs to.
Kind(q) ==
    IF q.method \in {TYPE_ORDER_ASC, TYPE_ORDER_DESC} THEN "order"
    ELSE IF q.method = TYPE_LIMIT THEN "limit"
    ELSE IF q.method = TYPE_OFFSET THEN "offset"
    ELSE IF q.method = TYPE_SELECT THEN "select"
    ELSE "filter"

\* The query lists that queries becomes by moving queries to other positions,
\* the queries of one group other than the filters keeping their order.
Rearrangements(queries) ==
    LET n == Len(queries)
        keeps(p) == \A i, j \in 1..n :
                       (i < j /\ Kind(queries[p[i]]) = Kind(queries[p[j]])
                              /\ Kind(queries[p[i]]) # "filter") => p[i] < p[j]
    IN {[i \in 1..n |-> queries[p[i]]] :
           p \in {q \in [1..n -> 1..n] : (\A i, j \in 1..n : i # j => q[i] # q[j]) /\ keeps(q)}}

\* The stored Document of the id.
StoredDocument(c, id) == MapGet(collections[c].documents, id)

\* Every returned document is a stored one that passes every filter.
FiltersApply ==
    \A i \in 1..Len(result.list) :
        \A q \in {x \in {last.queries[j] : j \in 1..Len(last.queries)} : Kind(x) = "filter"} :
            evaluate(heap, StoredDocument(last.coll, getId(heap, result.list[i]).s), q)

\* C2: the result of listDocuments is the same wherever the limit, offset,
\* order and select queries stand among the filters (the sort keys keeping
\* their order), and every returned document passes every filter, also a
\* filter on an attribute the select list drops.
C2_StagesInFixedOrder ==
    IsListing =>
        /\ \A moved \in Rearrangements(last.queries) : Listing(last.coll, moved) = ResultView
        /\ FiltersApply

\* A limit stood before a filter that removed a document, and the result kept one.
C2_Witness ==
    /\ IsListing
    /\ Len(last.queries) = 4 /\ Kind(last.queries[1]) = "limit" /\ Kind(last.queries[2]) = "filter"
    /\ Len(collections[last.coll].documents) = 3
    /\ Len(result.list) = 1
    /\ \E i \in 1..3 : ~evaluate(heap, collections[last.coll].documents[i].doc, last.queries[2])

\* The fields of the select list in force: those of the last select query.
Selected(queries) ==
    LET lists == Only(queries, {TYPE_SELECT})
    IN IF lists = <<>> THEN {}
       ELSE {lists[Len(lists)].values[i].s : i \in 1..Len(lists[Len(lists)].values)}

\* Every returned document has the selected keys, $id and $collection and no
\* other key, each with the value the stored document has for it (for $id and
\* $collection what its getId and getCollection return).  The stored document
\* is the one at the same position of the list without the select.
ProjectionOk ==
    LET unprojected == Listing(last.coll, Without(last.queries, {TYPE_SELECT}))
    IN /\ Len(result.list) = Len(unprojected)
       /\ \A i \in 1..Len(result.list) :
             LET returned == heap[result.list[i]].m
                 stored == StoredDocument(last.coll, unprojected[i].m[kId].s)
             IN /\ DOMAIN returned = Selected(last.queries) \cup {kId, kCollection}
                /\ \A key \in Selected(last.queries) \ {kId, kCollection} :
                      DeepValue(heap, returned[key])
                          = DeepValue(heap, getAttribute(heap, stored, key))
                /\ returned[kId] = getId(heap, stored)
                /\ returned[kCollection] = getCollection(heap, stored)

\* C9: when a non-empty select list is in force, every document listDocuments
\* returns has exactly the selected keys plus $id and $collection, with the
\* values of the stored document, and the stored documents keep all their
\* keys and values.
C9_SelectProjects ==
    /\ [](IsListing /\ Selected(last.queries) # {} => ProjectionOk)
    /\ [][(last'.op = "listDocuments" /\ Selected(last'.queries) # {})
            => StoredView' = StoredView]_vars

\* A list under select(["a"]) returned a document whose stored document has
\* the key b as well.
C9_Witness ==
    /\ IsListing
    /\ Selected(last.queries) = {kA}
    /\ \E i \in 1..Len(result.list) :
          kB \in DOMAIN heap[StoredDocument(last.coll, getId(heap, result.list[i]).s)].m

\* The sort keys of the list.
SortKeys(queries) == Only(queries, {TYPE_ORDER_ASC, TYPE_ORDER_DESC})

RECURSIVE ComparatorOfSpec(_, _, _)
\* The comparator of section 4.3.1 on two stored documents, key by key:
\* compareValues, its sign turned under orderDesc.
ComparatorOfSpec(a, b, keys) ==
    IF keys = <<>> THEN 0
    ELSE With(compareValues(heap, getAttribute(heap, a, Head(keys).attribute),
                            getAttribute(heap, b, Head(keys).attribute)),
              LAMBDA c : IF c = 0 THEN ComparatorOfSpec(a, b, Tail(keys))
                         ELSE IF Head(keys).method = TYPE_ORDER_ASC THEN c ELSE 0 - c)

\* The ids of the documents of a list.
Ids(view) == [i \in 1..Len(view) |-> view[i].m[kId].s]
IndexOf(ids, id) == CHOOSE i \in 1..Len(ids) : ids[i] = id

\* C10: under sort keys (and filters only), the result is the filtered set in
\* the order of the comparator of section 4.3.1 (the one of the relational
\* operators, compareValues), key by key; documents that tie on every key
\* stand in insertion order.
C10_SortedByComparator ==
    (IsListing /\ SortKeys(last.queries) # <<>>
        /\ \A i \in 1..Len(last.queries) : Kind(last.queries[i]) \in {"filter", "order"})
      => LET filtered == Ids(Listing(last.coll, Without(last.queries, {TYPE_ORDER_ASC, TYPE_ORDER_DESC})))
             sorted == Ids(ResultView)
         IN /\ Len(sorted) = Len(filtered)
            /\ {sorted[i] : i \in 1..Len(sorted)} = {filtered[i] : i \in 1..Len(filtered)}
            /\ \A i, j \in 1..Len(sorted) :
                  i < j =>
                    With(ComparatorOfSpec(StoredDocument(last.coll, sorted[i]),
                                          StoredDocument(last.coll, sorted[j]),
                                          SortKeys(last.queries)),
                         LAMBDA c : c <= 0 /\ (c = 0 => IndexOf(filtered, sorted[i])
                                                          < IndexOf(filtered, sorted[j])))

----------------------------------------------------------------------------
(* Properties of Documents *)

IdTyped(m) == kId \notin DOMAIN m \/ IsNullish(m[kId]) \/ m[kId].t = "str"

PermissionsTyped(h, m) ==
    \/ kPermissions \notin DOMAIN m
    \/ IsNullish(m[kPermissions])
    \/ /\ IsArr(h, m[kPermissions])
       /\ \A i \in 1..Len(h[m[kPermissions].a].s) : h[m[kPermissions].a].s[i].t = "str"

\* The literal would give the key a value of the wrong type: $id a value
\* that is no string, $permissions one that is no array.
IllTypedEntry(key, lit) ==
    \/ key = kId /\ lit.t \notin {"null", "undef", "str"}
    \/ key = kPermissions /\ lit.t \notin {"null", "undef", "larr"}

\* The last call was such a construction or assignment.
IllTypedCall ==
    \/ last.op = "setAttribute" /\ IllTypedEntry(last.id.s, last.input)
    \/ last.op = "new" /\ \E key \in DOMAIN last.input.m : IllTypedEntry(key, last.input.m[key])

\* The Documents the caller holds, by value.
HeldView == {DeepValue(heap, Ref(a)) : a \in held}

\* C6: in every Document, whether made by the constructor or changed by
\* setAttribute, $id is absent (or nullish) or a string and $permissions is
\* absent (or nullish) or an array of strings; a construction or assignment
\* that would give $id a value that is no string, or $permissions one that is
\* no array, throws and leaves the caller's Documents as they were.
C6_IdAndPermissionsTyped ==
    /\ [](\A a \in 1..Len(heap) :
             heap[a].k = "doc" => IdTyped(heap[a].m) /\ PermissionsTyped(heap, heap[a].m))
    /\ [][IllTypedCall' => (last'.thrown /\ HeldView' = HeldView)]_vars

----------------------------------------------------------------------------
(* Properties of queries *)

RECURSIVE MethodsValid(_)
\* Every method of the query, at any depth under and/or, is a recognized one.
MethodsValid(q) ==
    /\ q.method \in VALID_METHODS
    /\ q.method \in LOGICAL_METHODS => \A i \in 1..Len(q.values) : MethodsValid(q.values[i])

\* C7: whatever the path (the constructor, fromJSON, parse), a construction
\* that does not throw yields a query whose methods are all recognized, at
\* any depth: a construction with an unrecognized method throws.
C7_NoInvalidMethod ==
    (last.layer = "query" /\ ~last.thrown) => MethodsValid(last.output)

\* The same operand: the same kind of value, and equal (two objects by value).
SameOperand(h, v, p) ==
    v.t = p.t /\ (IF v.t = "ref" THEN DeepValue(h, v) = DeepValue(h, p) ELSE v = p)

RECURSIVE SameQuery(_, _, _)
\* The same method, attribute and values, nested queries compared alike.
SameQuery(h, q, r) ==
    /\ q.method = r.method
    /\ q.attribute = r.attribute
    /\ Len(q.values) = Len(r.values)
    /\ \A i \in 1..Len(q.values) :
          IF q.method \in LOGICAL_METHODS THEN SameQuery(h, q.values[i], r.values[i])
          ELSE SameOperand(h, q.values[i], r.values[i])

\* C8 as stated: for every query q that can be constructed,
\* Query.parse(q.toString()) is a query with the same method, attribute and
\* values as q, whatever the operands (Documents included).
C8_RoundTripIsIdentity ==
    last.op = "roundTrip" => (~last.thrown /\ SameQuery(heap, last.input, last.output))

\* An operand as toString writes it: a Document is its getId(), undefined is
\* null.
AsWritten(h, v) ==
    IF IsDoc(h, v) THEN getId(h, v.a) ELSE IF v.t = "undef" THEN Null ELSE v

RECURSIVE SameAsWritten(_, _, _)
SameAsWritten(h, q, r) ==
    /\ q.method = r.method
    /\ q.attribute = r.attribute
    /\ Len(q.values) = Len(r.values)
    /\ \A i \in 1..Len(q.values) :
          IF q.method \in LOGICAL_METHODS THEN SameAsWritten(h, q.values[i], r.values[i])
          ELSE SameOperand(h, AsWritten(h, q.values[i]), r.values[i])

\* C8, amended: Query.parse(q.toString()) throws exactly when some method of
\* q is unrecognized, and otherwise yields a query with the same method and
\* attribute and with the values of q as toString writes them: a Document
\* operand replaced by its getId(), undefined by null, every other operand
\* (a string, a number, a boolean, null, an array of these) equal.
C8_RoundTripAsWritten ==
    last.op = "roundTrip" =>
        /\ last.thrown <=> ~MethodsValid(last.input)
        /\ ~last.thrown => SameAsWritten(heap, last.input, last.output)

\* A query with a Document operand has gone through toString and parse.
C8_Witness ==
    /\ last.op = "roundTrip" /\ ~last.thrown
    /\ \E i \in 1..Len(last.input.values) : IsDoc(heap, last.input.values[i])

----------------------------------------------------------------------------
(* Properties of the boundary between the caller and the store *)

\* The calls that write to the store.
StoreWrites ==
    {"createDocument", "updateDocument", "updateDocumentWrite", "deleteDocument",
     "createCollection", "deleteCollection"}

\* No object of the store can be reached from what the caller holds or was
\* returned.
NoSharing == Reach(heap, StoredRoots(collections)) \cap Reach(heap, CallerRoots) = {}

\* C3: the stored documents change only in a createDocument, updateDocument,
\* deleteDocument or collection call, never in a step of the caller on the
\* Documents it passed in or was returned, at any depth, and never in a read;
\* and no object of the store is reachable from the caller's Documents.
C3_NoAliasing ==
    /\ [](NoSharing)
    /\ [][StoredView' # StoredView => last'.op \in StoreWrites]_vars

\* m.a of the Document at the address, undefined when there is none.
NestedA(a) ==
    LET m == getAttribute(heap, a, kM)
    IN IF m.t = "ref" /\ heap[m.a].k \in {"doc", "map"} /\ kA \in DOMAIN heap[m.a].m
       THEN heap[m.a].m[kA] ELSE Undef

\* The caller has just changed a nested attribute of a Document that the
\* store returned, and the stored Document of that id still has the old one.
C3_Witness ==
    /\ last.op = "setAttribute"
    /\ result.doc # 0 /\ NestedA(result.doc) = Num(2)
    /\ cUsers \in DOMAIN collections
    /\ MapHas(collections[cUsers].documents, getId(heap, result.doc).s)
    /\ NestedA(MapGet(collections[cUsers].documents, getId(heap, result.doc).s)) = Num(1)

----------------------------------------------------------------------------
(* Properties of the order of null and absent values (SpecOrder) *)

\* The sort keys as applyQueries hands them to compareDocuments.
OrderOf(queries) == partition(queries, NoGroups).order

\* The documents of the collection, in insertion order.
StoredDocuments(c) ==
    [i \in 1..Len(collections[c].documents) |-> collections[c].documents[i].doc]

\* C11: under one sort key, a null or absent sort attribute is the minimum:
\* in the result of orderAsc no document with a concrete value stands before
\* one whose attribute is null or absent, in the result of orderDesc none
\* stands behind one; and two documents whose attribute is null or absent
\* compare equal, whichever of the two is null and whichever is absent.
C11_NullishIsMinimum ==
    (IsListing /\ Len(last.queries) = 1 /\ Kind(last.queries[1]) = "order")
      => LET attribute == last.queries[1].attribute
             asc == last.queries[1].method = TYPE_ORDER_ASC
             missing(d) == IsNullish(getAttribute(heap, d, attribute))
             stored == StoredDocuments(last.coll)
         IN /\ \A i, j \in 1..Len(result.list) :
                  i < j => IF asc THEN ~(~missing(result.list[i]) /\ missing(result.list[j]))
                           ELSE ~(missing(result.list[i]) /\ ~missing(result.list[j]))
            /\ \A i, j \in 1..Len(stored) :
                  (missing(stored[i]) /\ missing(stored[j]))
                      => compareDocuments(heap, stored[i], stored[j], OrderOf(last.queries)) = 0

----------------------------------------------------------------------------
(* Properties of the export (SpecExport) *)

RECURSIVE PlainValue(_, _)
\* A value with every reference replaced by what it refers to, a Document by
\* the mapping of its entries.
PlainValue(h, v) ==
    IF v.t # "ref" THEN v
    ELSE IF h[v.a].k = "arr"
         THEN [k |-> "arr", s |-> [i \in 1..Len(h[v.a].s) |-> PlainValue(h, h[v.a].s[i])]]
         ELSE [k |-> "map", m |-> [x \in DOMAIN h[v.a].m |-> PlainValue(h, h[v.a].m[x])]]

\* The last call was a toJSON; result.doc is what it returned.
IsExport == last.op = "toJSON" /\ result.doc # 0

\* C12: what toJSON returns is a plain mapping with the entries of the
\* Document, every nested Document at whatever depth replaced by its export:
\* nothing reachable from it is a Document, and nothing reachable from it is
\* reachable from a Document the caller held before.
C12_ExportIsDeepAndPlain ==
    IsExport =>
        /\ \E d \in held : getId(heap, d) = last.id
                            /\ PlainValue(heap, Ref(result.doc)) = PlainValue(heap, Ref(d))
        /\ \A a \in Reach(heap, {result.doc}) : heap[a].k # "doc"
        /\ Reach(heap, {result.doc}) \cap Reach(heap, held) = {}

----------------------------------------------------------------------------
(* Properties of the logical queries (SpecLogic) *)

RECURSIVE FiltersOnly(_)
\* The query without the limit, offset, order and select queries nested in
\* it, at every depth.
FiltersOnly(q) ==
    IF q.method \in LOGICAL_METHODS
    THEN QueryObj(q.method, q.attribute,
                  With(SelectSeq(q.values, LAMBDA nested : Kind(nested) = "filter"),
                       LAMBDA kept : [i \in 1..Len(kept) |-> FiltersOnly(kept[i])]))
    ELSE q

\* The queries of a list that nest a query that is not a filter.
NestsOther(queries) == {i \in 1..Len(queries) : FiltersOnly(queries[i]) # queries[i]}

\* C13: a limit, offset, order or select query nested in an and/or query is
\* not evaluated as a predicate: the list is the one of the same queries
\* without the nested ones, and every returned document passes, for every
\* `or` of the list, at least one of the filters nested in it.
C13_OnlyFiltersArePredicates ==
    IsListing =>
        /\ ResultView = Listing(last.coll, [i \in 1..Len(last.queries) |-> FiltersOnly(last.queries[i])])
        /\ \A i \in 1..Len(result.list), j \in 1..Len(last.queries) :
              last.queries[j].method = TYPE_OR
                 => \E n \in 1..Len(last.queries[j].values) :
                       /\ Kind(last.queries[j].values[n]) = "filter"
                       /\ evaluate(heap, StoredDocument(last.coll, getId(heap, result.list[i]).s),
                                   FiltersOnly(last.queries[j].values[n]))

----------------------------------------------------------------------------
(* Properties of interleaved calls (SpecRace) *)

\* The store after the call n, run from the store s without interleaving; a
\* call that throws leaves the store as it was.
RunCall(s, n) ==
    With(IF n = "delete" THEN adapterDeleteDocument(s.h, s.cols, cUsers, idX)
         ELSE With(Materialize(s.h, RaceData(n)), LAMBDA data :
                   databaseUpdateDocument(data.h, s.cols, clock, cUsers, idX, data.v.a)),
         LAMBDA o : IF o.thrown THEN s ELSE [h |-> o.h, cols |-> o.cols])

RECURSIVE RunCalls(_, _)
\* The store after the calls of the sequence, one after the other.
RunCalls(s, order) ==
    IF order = <<>> THEN s ELSE RunCalls(RunCall(s, Head(order)), Tail(order))

\* The orders the calls of a set can run in.
Orders(S) ==
    {order \in [1..Cardinality(S) -> S] : \A i, j \in 1..Cardinality(S) : i # j => order[i] # order[j]}

\* The stores the calls of the set leave, run one after the other in some
\* order, by value.
SerialViews(S) ==
    {With(RunCalls(With(BaseStore(clock), LAMBDA o : [h |-> o.h, cols |-> o.cols]), order),
          LAMBDA s : StoredViewOf(s.h, s.cols)) : order \in Orders(S)}

\* C14: when every call issued has returned, the store is the one that the
\* same calls leave when they run one after the other in some order.
C14_InterleavingsAreSerial ==
    (Racing /\ pending = {}) => StoredView \in SerialViews(last.calls)

----------------------------------------------------------------------------
(* Properties of keys and collections (SpecKeys) *)

\* Every stored document stands under its $id in the collection its
\* $collection names.
KeysMatch ==
    \A c \in DOMAIN collections :
       \A i \in 1..Len(collections[c].documents) :
          LET entry == collections[c].documents[i]
          IN /\ getAttribute(heap, entry.doc, kId) = Str(entry.key)
             /\ getAttribute(heap, entry.doc, kCollection) = Str(c)

\* The content of a store without the entry of the key id of collection c.
Others(view, c, id) ==
    [n \in DOMAIN view |->
        IF n = c THEN SelectSeq(view[n].documents, LAMBDA entry : entry.key # id)
        ELSE view[n].documents]

\* C15: every stored document of a collection c stands under the key that
\* is its $id and has $collection = c, whatever keys the data of the calls
\* carried; and an updateDocument(c, id, data) that has written leaves every
\* entry other than the one of id as it was.
C15_KeysAndCollections ==
    /\ [](KeysMatch)
    /\ [][last'.op = "updateDocumentWrite"
            => Others(StoredView', last'.coll, last'.id.s) = Others(StoredView, last'.coll, last'.id.s)]_vars

====
